---- MODULE Spec2Model ----
(***************************************************************************)
(* Model of the Bayes-net inference code: bnetbase.py (Variable, Factor,   *)
(* BN, restrict_factor, sum_out_variable, normalize) and solution.py       *)
(* (multiply_factors, min_fill_ordering, VE, VE_cagan31, SampleBN).        *)
(*                                                                         *)
(* Numbers: factor tables hold integers (probabilities scaled by a common  *)
(* factor); a quotient n / s is kept as the exact rational [num, den].     *)
(* Python lists are 0-based; TLA+ sequences are 1-based, so an index i of  *)
(* the code addresses element i + 1 of the sequence.                       *)
(***************************************************************************)
EXTENDS Integers, Sequences, FiniteSets, TLC

VARIABLES
    dom,               \* Variable.dom, per Variable object
    evidence_index,    \* Variable.evidence_index
    assignment_index,  \* Variable.assignment_index
    Net,               \* the BN object: [Variables, Factors]
    QueryVar,          \* argument of VE / SampleBN
    EvidenceVars,      \* argument of VE / SampleBN
    call,              \* the call in progress and its arguments
    pc,                \* position of the call in progress
    ret,               \* returned value, or the exception raised
    factors,           \* VE: the working list of factors
    ordered,           \* VE: the elimination order still to process
    pending,           \* VE: the evidence variables still to apply
    samp,              \* SampleBN: its local variables
    reset_evidence,    \* Variable.reset_evidence, Variable -> the attribute
    threads            \* threads running Factor operations: their locals

varsObj == <<dom, evidence_index, assignment_index, reset_evidence>>
varsArg == <<Net, QueryVar, EvidenceVars, call>>
varsVE == <<factors, ordered, pending>>
vars == <<dom, evidence_index, assignment_index, Net, QueryVar, EvidenceVars,
          call, pc, ret, factors, ordered, pending, samp, reset_evidence,
          threads>>

\* Python's None
None == "None"

(***************************************************************************)
(* Bounds of the model                                                     *)
(***************************************************************************)
\* longest list handed to multiply_factors
MaxFactors == 3
\* number of table fillings tried for each factor scope
NumSeeds == 2
\* longest list handed to normalize
MaxNums == 3
\* longest EvidenceVars list
MaxEvidence == 2
\* sampling rounds of SampleBN (the code runs 1000)
NumSamples == 2
\* the draws of random.random() tried: 0, 1/UDen, ..., (UDen - 1)/UDen
UDen == 3
\* values Variable.add_domain_values may add to one domain
MaxDomainGrowth == 1
\* writes to the table of one Factor
MaxWrites == 2

(***************************************************************************)
(* Python list helpers                                                     *)
(***************************************************************************)
\* x in list
Contains(list, x) == \E k \in 1..Len(list) : list[k] = x

\* list.index(x): 0-based position of the first occurrence (x in list)
ListIndex(list, x) == (CHOOSE k \in 1..Len(list) :
                          list[k] = x /\ \A j \in 1..(k - 1) : list[j] # x) - 1

\* list.remove(x): the list without the first occurrence of x (x in list)
ListRemove(list, x) ==
    LET k == ListIndex(list, x) + 1
    IN  SubSeq(list, 1, k - 1) \o SubSeq(list, k + 1, Len(list))

\* list[i] with Python's negative indices
PyGet(list, i) == IF i >= 0 THEN list[i + 1] ELSE list[Len(list) + i + 1]

\* list[i] = x with Python's negative indices
PySet(list, i, x) == IF i >= 0 THEN [list EXCEPT ![i + 1] = x]
                     ELSE [list EXCEPT ![Len(list) + i + 1] = x]

RECURSIVE SumSeq(_)
SumSeq(nums) == IF Len(nums) = 0 THEN 0 ELSE nums[1] + SumSeq(Tail(nums))

(***************************************************************************)
(* class Variable                                                          *)
(***************************************************************************)
\* Variable.value_index raises ValueError exactly when value is not in dom
InDomain(v, value) == Contains(dom[v], value)

value_index(v, value) == ListIndex(dom[v], value)

domain_size(v) == Len(dom[v])

domain(v) == dom[v]

get_evidence(v) ==
    IF evidence_index[v] >= 0 THEN dom[v][evidence_index[v] + 1] ELSE None

(***************************************************************************)
(* class Factor: [name, scope, values]                                     *)
(***************************************************************************)
RECURSIVE TableSize(_)
TableSize(scope) ==
    IF Len(scope) = 0 THEN 1 ELSE domain_size(scope[1]) * TableSize(Tail(scope))

Factor(name, scope) ==
    [name |-> name, scope |-> scope,
     values |-> [k \in 1..TableSize(scope) |-> 0]]

get_scope(f) == f.scope

\* the loop "index = index * v.domain_size() + v.value_index(t[0]); t = t[1:]"
RECURSIVE ValuesIndex(_, _, _)
ValuesIndex(scope, variable_values, index) ==
    IF Len(scope) = 0 THEN index
    ELSE ValuesIndex(Tail(scope), Tail(variable_values),
                     index * domain_size(scope[1])
                       + value_index(scope[1], variable_values[1]))

\* the exception that loop raises: IndexError when the values run out,
\* ValueError when a value is not in its variable's domain
RECURSIVE ValuesIndexError(_, _)
ValuesIndexError(scope, variable_values) ==
    IF Len(scope) = 0 THEN None
    ELSE IF Len(variable_values) = 0 THEN "IndexError"
    ELSE IF ~InDomain(scope[1], variable_values[1]) THEN "ValueError"
    ELSE ValuesIndexError(Tail(scope), Tail(variable_values))

\* the loop "index = index * v.domain_size() + v.get_assignment_index()"
RECURSIVE AssignmentIndex(_, _, _)
AssignmentIndex(scope, asg, index) ==
    IF Len(scope) = 0 THEN index
    ELSE AssignmentIndex(Tail(scope), asg,
                         index * domain_size(scope[1]) + asg[scope[1]])

get_value(f, variable_values) ==
    PyGet(f.values, ValuesIndex(f.scope, variable_values, 0))

get_value_error(f, variable_values) ==
    ValuesIndexError(f.scope, variable_values)

get_value_at_current_assignments(f, asg) ==
    PyGet(f.values, AssignmentIndex(f.scope, asg, 0))

add_value_at_current_assignment(f, asg, number) ==
    [f EXCEPT !.values = PySet(@, AssignmentIndex(f.scope, asg, 0), number)]

\* a row of add_values is [vals, number]: the scope values and the number
RECURSIVE add_values(_, _)
add_values(f, rows) ==
    IF Len(rows) = 0 THEN f
    ELSE add_values(
           [f EXCEPT !.values =
               PySet(@, ValuesIndex(f.scope, rows[1].vals, 0), rows[1].number)],
           Tail(rows))

(***************************************************************************)
(* multiply_factors (solution.py)                                          *)
(***************************************************************************)
\* itertools.product(*domains): every combination, the last position
\* varying fastest
RECURSIVE Product(_)
Product(domains) ==
    IF Len(domains) = 0 THEN << <<>> >>
    ELSE LET rest == Product(Tail(domains))
             M == Len(rest)
         IN  [k \in 1..(Len(domains[1]) * M) |->
                <<domains[1][((k - 1) \div M) + 1]>> \o rest[((k - 1) % M) + 1]]

\* [comb[new_scp.index(elem)] for elem in scope]
Project(scope, new_scp, comb) ==
    [k \in 1..Len(scope) |-> comb[ListIndex(new_scp, scope[k]) + 1]]

\* MultiplyPair with the second operand's value left out of the product
MultiplyPair_FirstOnly(factor1, factor2) ==
    LET scope1 == get_scope(factor1)
        scope2 == get_scope(factor2)
        remaining_scope1 == SelectSeq(scope1, LAMBDA var : ~Contains(scope2, var))
        new_scp == scope2 \o remaining_scope1
        factor == Factor("Factor", new_scp)
        combs == Product([k \in 1..Len(new_scp) |-> domain(new_scp[k])])
        mult(comb) == get_value(factor1, Project(scope1, new_scp, comb))
    IN  add_values(factor,
                   [k \in 1..Len(combs) |->
                      [vals |-> combs[k], number |-> mult(combs[k])]])

\* one pass of the while loop: the product of the two factors popped
MultiplyPair(factor1, factor2) ==
    LET scope1 == get_scope(factor1)
        scope2 == get_scope(factor2)
        remaining_scope1 == SelectSeq(scope1, LAMBDA var : ~Contains(scope2, var))
        new_scp == scope2 \o remaining_scope1
        factor == Factor("Factor", new_scp)
        combs == Product([k \in 1..Len(new_scp) |-> domain(new_scp[k])])
        mult(comb) == get_value(factor1, Project(scope1, new_scp, comb))
                        * get_value(factor2, Project(scope2, new_scp, comb))
    IN  add_values(factor,
                   [k \in 1..Len(combs) |->
                      [vals |-> combs[k], number |-> mult(combs[k])]])

\* factors.pop() on an empty list
multiply_factors_error(Factors) ==
    IF Len(Factors) = 0 THEN "IndexError" ELSE None

\* multiply_factors with the loop run once: only the last two factors
multiply_factors_LastTwo(Factors) ==
    IF Len(Factors) = 1 THEN Factors[1]
    ELSE MultiplyPair(Factors[Len(Factors)], Factors[Len(Factors) - 1])

RECURSIVE multiply_factors(_)
multiply_factors(Factors) ==
    IF Len(Factors) = 1 THEN Factors[1]
    ELSE LET n == Len(Factors)
             factor1 == Factors[n]
             factor2 == Factors[n - 1]
         IN  multiply_factors(
               Append(SubSeq(Factors, 1, n - 2), MultiplyPair(factor1, factor2)))

(***************************************************************************)
(* restrict_factor, sum_out_variable, normalize (bnetbase.py)              *)
(* The routines write the Variables' assignment slots: asg is the map of   *)
(* assignment_index at the call, and the result carries the map at return. *)
(***************************************************************************)
\* scope.remove(var) and var.set_assignment(value) both raise ValueError
restrict_factor_error(f, var, value) ==
    IF ~Contains(get_scope(f), var) THEN "ValueError"
    ELSE IF ~InDomain(var, value) THEN "ValueError"
    ELSE None

RECURSIVE recursive_restrict_factor(_, _, _, _)
RECURSIVE RestrictLoop(_, _, _, _, _)
recursive_restrict_factor(Vars, f, var, st) ==
    IF Len(Vars) = 0
    THEN [st EXCEPT !.F = add_value_at_current_assignment(
                            st.F, st.asg,
                            get_value_at_current_assignments(f, st.asg))]
    ELSE IF Vars[1] # var
    THEN RestrictLoop(domain(Vars[1]), Vars, f, var, st)
    ELSE recursive_restrict_factor(Tail(Vars), f, var, st)

\* for val in Vars[0].domain(): Vars[0].set_assignment(val); recurse
RestrictLoop(vals, Vars, f, var, st) ==
    IF Len(vals) = 0 THEN st
    ELSE RestrictLoop(Tail(vals), Vars, f, var,
           recursive_restrict_factor(
             Tail(Vars), f, var,
             [st EXCEPT !.asg[Vars[1]] = value_index(Vars[1], vals[1])]))

\* restrict_factor without var.set_assignment(value)
restrict_factor_NoSet(f, var, value, asg) ==
    LET scope == ListRemove(get_scope(f), var)
        F == Factor("Restrict", scope)
    IN  recursive_restrict_factor(get_scope(f), f, var, [F |-> F, asg |-> asg])

\* the result is [F, asg]: the new factor and the assignment slots it leaves
restrict_factor(f, var, value, asg) ==
    LET scope == ListRemove(get_scope(f), var)
        F == Factor("Restrict", scope)
    IN  recursive_restrict_factor(
          get_scope(f), f, var,
          [F |-> F, asg |-> [asg EXCEPT ![var] = value_index(var, value)]])

\* scope.remove(var) raises ValueError
sum_out_variable_error(f, var) ==
    IF ~Contains(get_scope(f), var) THEN "ValueError" ELSE None

\* SumLoop with "summ = prod": the last value instead of the sum
RECURSIVE SumLoop_Last(_, _, _, _, _)
SumLoop_Last(vals, f, var, asg, summ) ==
    IF Len(vals) = 0 THEN [asg |-> asg, summ |-> summ]
    ELSE LET a == [asg EXCEPT ![var] = value_index(var, vals[1])]
         IN  SumLoop_Last(Tail(vals), f, var, a,
                          get_value_at_current_assignments(f, a))

\* for val in var.domain(): var.set_assignment(val); summ = summ + value
RECURSIVE SumLoop(_, _, _, _, _)
SumLoop(vals, f, var, asg, summ) ==
    IF Len(vals) = 0 THEN [asg |-> asg, summ |-> summ]
    ELSE LET a == [asg EXCEPT ![var] = value_index(var, vals[1])]
         IN  SumLoop(Tail(vals), f, var, a,
                     summ + get_value_at_current_assignments(f, a))

RECURSIVE recursive_eliminate_variable(_, _, _, _)
RECURSIVE EliminateLoop(_, _, _, _, _)
recursive_eliminate_variable(Vars, f, var, st) ==
    IF Len(Vars) = 0
    THEN LET r == SumLoop(domain(var), f, var, st.asg, 0)
         IN  [F |-> add_value_at_current_assignment(st.F, r.asg, r.summ),
              asg |-> r.asg]
    ELSE EliminateLoop(domain(Vars[1]), Vars, f, var, st)

EliminateLoop(vals, Vars, f, var, st) ==
    IF Len(vals) = 0 THEN st
    ELSE EliminateLoop(Tail(vals), Vars, f, var,
           recursive_eliminate_variable(
             Tail(Vars), f, var,
             [st EXCEPT !.asg[Vars[1]] = value_index(Vars[1], vals[1])]))

\* the result is [F, asg]
sum_out_variable(f, var, asg) ==
    LET scope == ListRemove(get_scope(f), var)
        F == Factor("Eliminate", scope)
    IN  recursive_eliminate_variable(scope, f, var, [F |-> F, asg |-> asg])

\* n / s, and the integer 0 of [0] * len(nums)
Quotient(n, s) == [num |-> n, den |-> s]

IntZero == [num |-> 0, den |-> 1]

\* normalize without the "s == 0" branch
normalize_NoGuard(nums) ==
    [k \in 1..Len(nums) |-> Quotient(nums[k], SumSeq(nums))]

normalize(nums) ==
    LET s == SumSeq(nums)
    IN  IF s = 0 THEN [k \in 1..Len(nums) |-> IntZero]
        ELSE [k \in 1..Len(nums) |-> Quotient(nums[k], s)]

(***************************************************************************)
(* min_fill_ordering (solution.py)                                         *)
(***************************************************************************)
\* count_dct as the list of its items [var, n] in insertion order;
\* setdefault(scope, 0) followed by += 1
CountUp(count_dct, var) ==
    IF \E k \in 1..Len(count_dct) : count_dct[k].var = var
    THEN [k \in 1..Len(count_dct) |->
            IF count_dct[k].var = var
            THEN [count_dct[k] EXCEPT !.n = @ + 1] ELSE count_dct[k]]
    ELSE Append(count_dct, [var |-> var, n |-> 1])

RECURSIVE CountScope(_, _, _)
CountScope(scopes, QVar, count_dct) ==
    IF Len(scopes) = 0 THEN count_dct
    ELSE CountScope(Tail(scopes), QVar,
                    IF scopes[1] # QVar THEN CountUp(count_dct, scopes[1])
                    ELSE count_dct)

RECURSIVE CountFactors(_, _, _)
CountFactors(Factors, QVar, count_dct) ==
    IF Len(Factors) = 0 THEN count_dct
    ELSE CountFactors(Tail(Factors), QVar,
                      CountScope(get_scope(Factors[1]), QVar, count_dct))

\* InsertByCount of an unstable sort: an item goes before its equals
InsertByCount_Unstable(sorted, item) ==
    LET before == SelectSeq(sorted, LAMBDA x : x.n < item.n)
        after == SelectSeq(sorted, LAMBDA x : x.n >= item.n)
    IN  before \o <<item>> \o after

\* sorted(items, key=count) is stable: an item goes behind every item whose
\* count is not larger
InsertByCount(sorted, item) ==
    LET before == SelectSeq(sorted, LAMBDA x : x.n <= item.n)
        after == SelectSeq(sorted, LAMBDA x : x.n > item.n)
    IN  before \o <<item>> \o after

RECURSIVE SortedByCount(_, _)
SortedByCount(items, sorted) ==
    IF Len(items) = 0 THEN sorted
    ELSE SortedByCount(Tail(items), InsertByCount(sorted, items[1]))

min_fill_ordering(Factors, QVar) ==
    LET count_dct == CountFactors(Factors, QVar, <<>>)
        by_count == SortedByCount(count_dct, <<>>)
    IN  [k \in 1..Len(by_count) |-> by_count[k].var]

(***************************************************************************)
(* VE and VE_cagan31 (solution.py)                                         *)
(***************************************************************************)
\* RestrictAll that stops at the first factor it restricts
RECURSIVE RestrictAll_First(_, _, _, _, _)
RestrictAll_First(fs, i, ev, value, asg) ==
    IF i > Len(fs) THEN [factors |-> fs, asg |-> asg]
    ELSE IF Contains(get_scope(fs[i]), ev)
    THEN LET r == restrict_factor(fs[i], ev, value, asg)
         IN  [factors |-> [fs EXCEPT ![i] = r.F], asg |-> r.asg]
    ELSE RestrictAll_First(fs, i + 1, ev, value, asg)

\* the while loop of VE for one evidence variable: every factor that
\* mentions ev is replaced by its restriction; the result is [factors, asg]
RECURSIVE RestrictAll(_, _, _, _, _)
RestrictAll(fs, i, ev, value, asg) ==
    IF i > Len(fs) THEN [factors |-> fs, asg |-> asg]
    ELSE IF Contains(get_scope(fs[i]), ev)
    THEN LET r == restrict_factor(fs[i], ev, value, asg)
         IN  RestrictAll([fs EXCEPT ![i] = r.F], i + 1, ev, value, r.asg)
    ELSE RestrictAll(fs, i + 1, ev, value, asg)

\* the exception of that loop: the first restrict_factor that raises
RestrictAllError(fs, ev, value) ==
    IF \E i \in 1..Len(fs) :
         /\ Contains(get_scope(fs[i]), ev)
         /\ restrict_factor_error(fs[i], ev, value) # None
    THEN "ValueError" ELSE None

\* VE_cagan31 with the gathered factors left in the working list
VE_cagan31_KeepGathered(fs, var, asg) ==
    LET lst == SelectSeq(fs, LAMBDA factor : Contains(get_scope(factor), var))
    IN  IF Len(lst) = 0 THEN [factors |-> fs, asg |-> asg]
        ELSE LET multiplied_factor == multiply_factors(lst)
                 summed == sum_out_variable(multiplied_factor, var, asg)
             IN  [factors |-> Append(fs, summed.F), asg |-> summed.asg]

\* the result is [factors, asg]
VE_cagan31(fs, var, asg) ==
    LET lst == SelectSeq(fs, LAMBDA factor : Contains(get_scope(factor), var))
    IN  IF Len(lst) = 0 THEN [factors |-> fs, asg |-> asg]
        ELSE LET multiplied_factor == multiply_factors(lst)
                 new_lst == SelectSeq(fs, LAMBDA factor : ~Contains(lst, factor))
                 summed == sum_out_variable(multiplied_factor, var, asg)
             IN  [factors |-> Append(new_lst, summed.F), asg |-> summed.asg]

\* the exception of the read-off loop "last_factor.get_value([dom])"
ReadOffError(last_factor, QVar) ==
    LET bad == {k \in 1..Len(domain(QVar)) :
                  get_value_error(last_factor, <<domain(QVar)[k]>>) # None}
    IN  IF bad = {} THEN None
        ELSE get_value_error(
               last_factor,
               <<domain(QVar)[CHOOSE k \in bad : \A j \in bad : k <= j]>>)

\* probabilities: the value of last_factor at each value of QueryVar
ReadOff(last_factor, QVar) ==
    [k \in 1..Len(domain(QVar)) |-> get_value(last_factor, <<domain(QVar)[k]>>)]

\* "return probabilities" without normalize
VE_Return_Raw(last_factor, QVar) ==
    [k \in 1..Len(domain(QVar)) |-> Quotient(ReadOff(last_factor, QVar)[k], 1)]

\* the value VE returns
VE_Return(last_factor, QVar) == normalize(ReadOff(last_factor, QVar))

(***************************************************************************)
(* SampleBN (solution.py)                                                  *)
(***************************************************************************)
\* dct[name] = value on a Python dict
Extend(a, var, value) ==
    [v \in (DOMAIN a) \cup {var} |-> IF v = var THEN value ELSE a[v]]

\* chosen_val = 0: the integer the selection starts from
IntChosenZero == "0"

\* "if query:" is false for None, for an empty string and for the number 0
Truthy(x) == x \notin {None, "", IntChosenZero}

\* the weight of one evidence variable: the loop over Net.factors() that
\* multiplies in every factor whose scope is exactly [ev]
RECURSIVE EvidenceWeight(_, _, _)
EvidenceWeight(fs, ev, curr_weight) ==
    IF Len(fs) = 0 THEN curr_weight
    ELSE LET scp == get_scope(fs[1])
         IN  EvidenceWeight(
               Tail(fs), ev,
               IF Contains(scp, ev) /\ Len(scp) = 1
               THEN curr_weight * get_value(fs[1], <<get_evidence(ev)>>)
               ELSE curr_weight)

\* the exception of that loop: get_value on an evidence value not in the domain
EvidenceWeightError(fs, ev) ==
    IF \E k \in 1..Len(fs) :
         /\ get_scope(fs[k]) = <<ev>>
         /\ get_value_error(fs[k], <<get_evidence(ev)>>) # None
    THEN "ValueError" ELSE None

\* "for ev in evidence": the result is [dct, curr_weight]
RECURSIVE EvidenceLoop(_, _, _, _)
EvidenceLoop(evidence, fs, dct, curr_weight) ==
    IF Len(evidence) = 0 THEN [dct |-> dct, curr_weight |-> curr_weight]
    ELSE LET ev == evidence[1]
         IN  EvidenceLoop(Tail(evidence), fs,
                          Extend(dct, ev, get_evidence(ev)),
                          EvidenceWeight(fs, ev, curr_weight))

EvidenceLoopError(evidence, fs) ==
    IF \E k \in 1..Len(evidence) : EvidenceWeightError(fs, evidence[k]) # None
    THEN "ValueError" ELSE None

\* the search "for factor in Net.factors(): if variable in scope: break";
\* curr_factor keeps its earlier value when no factor mentions the variable
FindFactor(fs, variable, curr_factor) ==
    IF \E k \in 1..Len(fs) : Contains(get_scope(fs[k]), variable)
    THEN fs[CHOOSE k \in 1..Len(fs) :
              /\ Contains(get_scope(fs[k]), variable)
              /\ \A j \in 1..(k - 1) : ~Contains(get_scope(fs[j]), variable)]
    ELSE curr_factor

\* combination: val for the variable, dct[v.name] for the others
Combination(curr_factor, variable, val, dct) ==
    [k \in 1..Len(get_scope(curr_factor)) |->
       IF get_scope(curr_factor)[k] = variable THEN val
       ELSE dct[get_scope(curr_factor)[k]]]

\* the exception of building probs: a Variable of the scope without a value
\* in dct, or a value that is not in its domain
ProbsError(curr_factor, variable, dct) ==
    IF Len(domain(variable)) = 0 THEN None
    ELSE IF \E k \in 1..Len(get_scope(curr_factor)) :
              /\ get_scope(curr_factor)[k] # variable
              /\ get_scope(curr_factor)[k] \notin DOMAIN dct
    THEN "KeyError"
    ELSE get_value_error(curr_factor,
                         Combination(curr_factor, variable, domain(variable)[1], dct))

Probs(curr_factor, variable, dct) ==
    [k \in 1..Len(domain(variable)) |->
       get_value(curr_factor,
                 Combination(curr_factor, variable, domain(variable)[k], dct))]

\* accumulator after i + 1 passes of the selection loop, times prob_sum
Accumulated(probs, i) == SumSeq(SubSeq(probs, 1, i + 1))

\* the passes of the selection loop at which "random_num <= accumulator"
\* holds for random_num = u / UDen (prob_sum > 0)
Hits(probs, u) ==
    {i \in 0..(Len(probs) - 1) : u * SumSeq(probs) <= Accumulated(probs, i) * UDen}

\* the selection loop: [i, chosen_val] when it ends
Select(variable, probs, u, i) ==
    IF Len(probs) = 0 THEN [i |-> i, chosen_val |-> IntChosenZero]
    ELSE IF Hits(probs, u) = {}
    THEN [i |-> Len(probs) - 1, chosen_val |-> IntChosenZero]
    ELSE LET first == CHOOSE k \in Hits(probs, u) : \A j \in Hits(probs, u) : k <= j
         IN  [i |-> first, chosen_val |-> domain(variable)[first + 1]]

(***************************************************************************)
(* The Variable objects of the model and their domains                     *)
(***************************************************************************)
\* X, Y, Z: free-standing Variables for the factor algebra, with domains of
\* different sizes; E, B, S, G, W: the autograder's example;
\* Country, Age, Fatality: the causal models (Age cut to three values);
\* Lamp, Flag, Spare: Variables of small networks, Flag with the empty
\* string as a domain value
VariableObjects ==
    {"X", "Y", "Z", "E", "B", "S", "G", "W", "Country", "Age", "Fatality",
     "Lamp", "Flag", "Spare"}

InitDom ==
    [v \in VariableObjects |->
       CASE v = "X" -> <<"x0", "x1">>
         [] v = "Y" -> <<"y0", "y1", "y2">>
         [] v = "Z" -> <<"z0", "z1">>
         [] v = "E" -> <<"e", "-e">>
         [] v = "B" -> <<"b", "-b">>
         [] v = "S" -> <<"s", "-s">>
         [] v = "G" -> <<"g", "-g">>
         [] v = "W" -> <<"w", "-w">>
         [] v = "Country" -> <<"Italy", "China">>
         [] v = "Age" -> <<"0-9", "70-79", "80">>
         [] v = "Fatality" -> <<"YES", "NO">>
         [] v = "Lamp" -> <<"lit", "dark">>
         [] v = "Flag" -> <<"", "on">>
         [] v = "Spare" -> <<"a", "b">>]

Unset == [v \in VariableObjects |-> -1]

NoNet == [Variables |-> <<>>, Factors |-> <<>>]

NoSamp == [round |-> 0]

\* every Variable starts with reset_evidence bound to the method of the class
BoundMethod == [v \in VariableObjects |-> "method"]

\* the int -1 as the value of the attribute reset_evidence
IntMinusOne == "-1"

\* no thread has been started
NoThreads == <<>>

\* all sequences over S of length lo..hi
SeqsOf(S, lo, hi) == UNION {[1..n -> S] : n \in lo..hi}

(***************************************************************************)
(* The factor algebra called on its own                                    *)
(***************************************************************************)
AlgVariables == {"X", "Y", "Z"}

\* scopes: empty, single, shared in both orders, disjoint
AlgScopes == << <<>>, <<"X">>, <<"Z">>, <<"X", "Y">>, <<"Y", "X">>, <<"Y", "Z">> >>

\* a table filling: small non-negative integers, zeros included
AlgFactor(scope, seed) ==
    [Factor("F", scope) EXCEPT
       !.values = [k \in DOMAIN @ |-> (seed * k * k + k + seed) % 4]]

\* the factor list for the scope choices sc, fillings rotating from seed
AlgFactors(sc, seed) ==
    [k \in 1..Len(sc) |-> AlgFactor(AlgScopes[sc[k]], ((seed + k) % NumSeeds) + 1)]

NumValues == {-1, 0, 1, 2}

\* assignment slots as an earlier operation may have left them
AlgAssignments == {Unset, [v \in VariableObjects |-> Len(InitDom[v]) - 1]}

InitCalls ==
    {[op |-> "multiply_factors", Factors |-> AlgFactors(sc, seed)] :
        sc \in SeqsOf(1..Len(AlgScopes), 0, MaxFactors), seed \in 1..NumSeeds}
    \cup
    {[op |-> "restrict_factor", f |-> AlgFactor(AlgScopes[i], seed),
      var |-> c[1], value |-> c[2]] :
        i \in 1..Len(AlgScopes), seed \in 1..NumSeeds,
        c \in {<<v, x>> \in AlgVariables \X
                 (UNION {{InitDom[v][k] : k \in 1..Len(InitDom[v])} :
                           v \in AlgVariables} \cup {None}) :
                 x = None \/ Contains(InitDom[v], x)}}
    \cup
    {[op |-> "sum_out_variable", f |-> AlgFactor(AlgScopes[i], seed), var |-> v] :
        i \in 1..Len(AlgScopes), seed \in 1..NumSeeds, v \in AlgVariables}
    \cup
    {[op |-> "normalize", nums |-> nums] : nums \in SeqsOf(NumValues, 0, MaxNums)}
    \cup
    {[op |-> "min_fill_ordering", Factors |-> AlgFactors(sc, 1), QueryVar |-> v] :
        sc \in SeqsOf(1..Len(AlgScopes), 0, MaxFactors), v \in AlgVariables}

InitAlgebra ==
    /\ dom = InitDom
    /\ evidence_index = Unset
    /\ Net = NoNet
    /\ QueryVar = None
    /\ EvidenceVars = <<>>
    /\ call \in InitCalls
    /\ assignment_index \in
         IF call.op \in {"restrict_factor", "sum_out_variable"}
         THEN AlgAssignments ELSE {Unset}
    /\ pc = "call"
    /\ ret = None
    /\ factors = <<>>
    /\ ordered = <<>>
    /\ pending = <<>>
    /\ samp = NoSamp
    /\ reset_evidence = BoundMethod
    /\ threads = NoThreads

CallMultiplyFactors ==
    /\ pc = "call" /\ call.op = "multiply_factors"
    /\ IF multiply_factors_error(call.Factors) # None
       THEN pc' = "raise" /\ ret' = multiply_factors_error(call.Factors)
       ELSE pc' = "return" /\ ret' = multiply_factors(call.Factors)
    /\ UNCHANGED <<varsObj, varsArg, varsVE, samp, threads>>

\* restrict_factor that hands back f when var is not in f's scope
CallRestrictFactor_Unaffected ==
    /\ pc = "call" /\ call.op = "restrict_factor"
    /\ IF ~Contains(get_scope(call.f), call.var)
       THEN pc' = "return" /\ ret' = call.f /\ UNCHANGED assignment_index
       ELSE IF restrict_factor_error(call.f, call.var, call.value) # None
       THEN /\ pc' = "raise"
            /\ ret' = restrict_factor_error(call.f, call.var, call.value)
            /\ UNCHANGED assignment_index
       ELSE LET r == restrict_factor(call.f, call.var, call.value, assignment_index)
            IN  /\ pc' = "return"
                /\ ret' = r.F
                /\ assignment_index' = r.asg
    /\ UNCHANGED <<dom, evidence_index, reset_evidence, varsArg, varsVE, samp, threads>>

CallRestrictFactor ==
    /\ pc = "call" /\ call.op = "restrict_factor"
    /\ IF restrict_factor_error(call.f, call.var, call.value) # None
       THEN /\ pc' = "raise"
            /\ ret' = restrict_factor_error(call.f, call.var, call.value)
            /\ UNCHANGED assignment_index
       ELSE LET r == restrict_factor(call.f, call.var, call.value, assignment_index)
            IN  /\ pc' = "return"
                /\ ret' = r.F
                /\ assignment_index' = r.asg
    /\ UNCHANGED <<dom, evidence_index, reset_evidence, varsArg, varsVE, samp, threads>>

CallSumOutVariable ==
    /\ pc = "call" /\ call.op = "sum_out_variable"
    /\ IF sum_out_variable_error(call.f, call.var) # None
       THEN /\ pc' = "raise"
            /\ ret' = sum_out_variable_error(call.f, call.var)
            /\ UNCHANGED assignment_index
       ELSE LET r == sum_out_variable(call.f, call.var, assignment_index)
            IN  /\ pc' = "return"
                /\ ret' = r.F
                /\ assignment_index' = r.asg
    /\ UNCHANGED <<dom, evidence_index, reset_evidence, varsArg, varsVE, samp, threads>>

CallNormalize ==
    /\ pc = "call" /\ call.op = "normalize"
    /\ pc' = "return"
    /\ ret' = normalize(call.nums)
    /\ UNCHANGED <<varsObj, varsArg, varsVE, samp, threads>>

CallMinFillOrdering ==
    /\ pc = "call" /\ call.op = "min_fill_ordering"
    /\ pc' = "return"
    /\ ret' = min_fill_ordering(call.Factors, call.QueryVar)
    /\ UNCHANGED <<varsObj, varsArg, varsVE, samp, threads>>

NextAlgebra ==
    \/ CallMultiplyFactors
    \/ CallRestrictFactor
    \/ CallSumOutVariable
    \/ CallNormalize
    \/ CallMinFillOrdering

SpecAlgebra == InitAlgebra /\ [][NextAlgebra]_vars

(***************************************************************************)
(* Properties of the factor algebra                                        *)
(***************************************************************************)
ScopeSet(scope) == {scope[k] : k \in 1..Len(scope)}

\* every assignment of a domain value to each variable of Vs
RECURSIVE Assignments(_)
Assignments(Vs) ==
    IF Vs = {} THEN {<<>>}
    ELSE LET v == CHOOSE v \in Vs : TRUE
         IN  {Extend(a, v, x) : a \in Assignments(Vs \ {v}), x \in ScopeSet(dom[v])}

\* the value of f at the assignment a, projected onto f's scope order
At(f, a) == get_value(f, [k \in 1..Len(f.scope) |-> a[f.scope[k]]])

RECURSIVE ProductAt(_, _)
ProductAt(Factors, a) ==
    IF Len(Factors) = 0 THEN 1
    ELSE At(Factors[1], a) * ProductAt(Tail(Factors), a)

UnionScope(Factors) == UNION {ScopeSet(Factors[k].scope) : k \in 1..Len(Factors)}

Returned(op) == pc = "return" /\ call.op = op

Finished(op) == pc \in {"return", "raise"} /\ call.op = op

\* C1: for a non-empty list multiply_factors returns a factor whose scope
\* holds exactly the variables of the union of the input scopes, each once,
\* and whose value at every assignment to the union is the product of the
\* input factors' values there; a one-element list yields that factor itself.
C1_MultiplyContract ==
    /\ (Finished("multiply_factors") /\ Len(call.Factors) >= 1) => pc = "return"
    /\ Returned("multiply_factors") =>
         LET U == UnionScope(call.Factors)
         IN  /\ ScopeSet(ret.scope) = U
             /\ Len(ret.scope) = Cardinality(U)
             /\ \A a \in Assignments(U) : At(ret, a) = ProductAt(call.Factors, a)
             /\ Len(call.Factors) = 1 => ret = call.Factors[1]

\* three factors with overlapping scopes multiplied into a non-zero table
C1_Witness ==
    /\ Returned("multiply_factors")
    /\ Len(call.Factors) = 3
    /\ Len(ret.scope) = 3
    /\ \E k \in 1..Len(ret.values) : ret.values[k] > 1
    /\ \E i, j \in 1..3 :
         i # j /\ ScopeSet(call.Factors[i].scope) \cap ScopeSet(call.Factors[j].scope) # {}

ListOrders(n) == {p \in [1..n -> 1..n] : \A i, j \in 1..n : p[i] = p[j] => i = j}

SameFunction(F1, F2) ==
    /\ ScopeSet(F1.scope) = ScopeSet(F2.scope)
    /\ \A a \in Assignments(ScopeSet(F1.scope)) : At(F1, a) = At(F2, a)

\* C2: the value of the product at every assignment is the same for every
\* permutation of the list and for every pairwise grouping of three factors.
C2_MultiplyOrderFree ==
    Returned("multiply_factors") =>
      LET L == call.Factors
      IN  /\ \A p \in ListOrders(Len(L)) :
               SameFunction(multiply_factors([k \in 1..Len(L) |-> L[p[k]]]), ret)
          /\ Len(L) = 3 =>
               /\ SameFunction(
                    multiply_factors(<<multiply_factors(<<L[1], L[2]>>), L[3]>>), ret)
               /\ SameFunction(
                    multiply_factors(<<L[1], multiply_factors(<<L[2], L[3]>>)>>), ret)

\* three different factors, two of them over the same variables in
\* different scope orders
C2_Witness ==
    /\ Returned("multiply_factors")
    /\ Len(call.Factors) = 3
    /\ \E i, j \in 1..3 :
         /\ call.Factors[i].scope # call.Factors[j].scope
         /\ ScopeSet(call.Factors[i].scope) = ScopeSet(call.Factors[j].scope)
    /\ \E i, j \in 1..3 : call.Factors[i].values # call.Factors[j].values
    /\ \E k \in 1..Len(ret.values) : ret.values[k] > 0

\* C4: restrict_factor(f, var, value), var in f's scope and value in var's
\* domain, returns a factor over f's scope without var, order kept, whose
\* value at every assignment is f's value there with var = value; restricting
\* the only variable gives the constant factor holding f's value at value.
C4_RestrictContract ==
    /\ (/\ Finished("restrict_factor")
        /\ Contains(call.f.scope, call.var)
        /\ InDomain(call.var, call.value)) => pc = "return"
    /\ Returned("restrict_factor") =>
         /\ ret.scope = SelectSeq(call.f.scope, LAMBDA v : v # call.var)
         /\ \A a \in Assignments(ScopeSet(ret.scope)) :
              At(ret, a) = At(call.f, Extend(a, call.var, call.value))
         /\ call.f.scope = <<call.var>> =>
              /\ ret.scope = <<>>
              /\ ret.values = <<get_value(call.f, <<call.value>>)>>

\* a two-variable factor restricted on its second variable to a value
\* other than the first, with a non-zero slice
C4_Witness ==
    /\ Returned("restrict_factor")
    /\ Len(call.f.scope) = 2
    /\ call.f.scope[2] = call.var
    /\ value_index(call.var, call.value) > 0
    /\ \E k \in 1..Len(ret.values) : ret.values[k] > 0

RECURSIVE SumOver(_, _, _, _)
SumOver(vals, f, a, var) ==
    IF Len(vals) = 0 THEN 0
    ELSE At(f, Extend(a, var, vals[1])) + SumOver(Tail(vals), f, a, var)

\* C5: sum_out_variable(f, var), var in f's scope, returns a factor over f's
\* scope without var, order kept, whose value at every assignment is the sum
\* of f's values there over every value of var's domain.
C5_SumOutContract ==
    /\ (Finished("sum_out_variable") /\ Contains(call.f.scope, call.var)) =>
         pc = "return"
    /\ Returned("sum_out_variable") =>
         /\ ret.scope = SelectSeq(call.f.scope, LAMBDA v : v # call.var)
         /\ \A a \in Assignments(ScopeSet(ret.scope)) :
              At(ret, a) = SumOver(dom[call.var], call.f, a, call.var)

\* a three-valued variable summed out of a two-variable factor
C5_Witness ==
    /\ Returned("sum_out_variable")
    /\ Len(call.f.scope) = 2
    /\ call.var = "Y"
    /\ \E k \in 1..Len(ret.values) : ret.values[k] > 1

(***************************************************************************)
(* Rationals [num, den]                                                    *)
(***************************************************************************)
RECURSIVE GCD(_, _)
GCD(a, b) == IF b = 0 THEN a ELSE GCD(b, a % b)

Abs(n) == IF n < 0 THEN -n ELSE n

\* lowest terms with a positive denominator (den # 0)
Reduce(q) ==
    LET g == GCD(Abs(q.num), Abs(q.den))
        sgn == IF q.den < 0 THEN -1 ELSE 1
    IN  [num |-> sgn * (q.num \div g), den |-> sgn * (q.den \div g)]

RatEq(p, q) == p.den # 0 /\ q.den # 0 /\ Reduce(p) = Reduce(q)

\* the sum of two rationals (both den # 0) over their least common denominator
RatAdd(p, q) ==
    LET a == Reduce(p)
        b == Reduce(q)
        l == (a.den \div GCD(a.den, b.den)) * b.den
    IN  [num |-> a.num * (l \div a.den) + b.num * (l \div b.den), den |-> l]

RECURSIVE RatSum(_)
RatSum(qs) == IF Len(qs) = 0 THEN IntZero ELSE RatAdd(qs[1], RatSum(Tail(qs)))

\* the sum is defined: no entry is a division by zero
RatDefined(qs) == \A k \in 1..Len(qs) : qs[k].den # 0

IsZero(q) == RatEq(q, IntZero)

IsOne(q) == RatEq(q, [num |-> 1, den |-> 1])

\* C6: normalize(nums) returns a list of the length of nums; with a non-zero
\* sum s every entry i is nums[i] / s and the entries sum to 1; with s = 0
\* every entry is 0 and nothing is raised.
C6_NormalizeContract ==
    /\ Finished("normalize") => pc = "return"
    /\ Returned("normalize") =>
         LET s == SumSeq(call.nums)
         IN  /\ Len(ret) = Len(call.nums)
             /\ s # 0 =>
                  /\ \A k \in 1..Len(ret) : RatEq(ret[k], Quotient(call.nums[k], s))
                  /\ RatDefined(ret) /\ IsOne(RatSum(ret))
             /\ s = 0 => \A k \in 1..Len(ret) : IsZero(ret[k])

\* a list with non-zero entries whose sum is zero
C6_Witness ==
    /\ Returned("normalize")
    /\ SumSeq(call.nums) = 0
    /\ \E k \in 1..Len(call.nums) : call.nums[k] # 0

\* the number of factors whose scope contains v
Appearances(Factors, v) ==
    Cardinality({k \in 1..Len(Factors) : Contains(Factors[k].scope, v)})

\* v is met before w going through the factors in list order and through
\* each scope in scope order
MetBefore(Factors, v, w) ==
    LET first(x) == CHOOSE k \in 1..Len(Factors) :
                      /\ Contains(Factors[k].scope, x)
                      /\ \A j \in 1..(k - 1) : ~Contains(Factors[j].scope, x)
    IN  \/ first(v) < first(w)
        \/ /\ first(v) = first(w)
           /\ ListIndex(Factors[first(v)].scope, v)
                < ListIndex(Factors[first(v)].scope, w)

\* C9: min_fill_ordering returns every variable other than QueryVar found in
\* some scope, each once, never QueryVar, ascending by the number of factors
\* that contain it, equal counts in the order of first encounter.
C9_MinFillOrdering ==
    Returned("min_fill_ordering") =>
      LET Fs == call.Factors
      IN  /\ ScopeSet(ret) = UnionScope(Fs) \ {call.QueryVar}
          /\ Len(ret) = Cardinality(ScopeSet(ret))
          /\ \A i, j \in 1..Len(ret) :
               i < j =>
                 \/ Appearances(Fs, ret[i]) < Appearances(Fs, ret[j])
                 \/ /\ Appearances(Fs, ret[i]) = Appearances(Fs, ret[j])
                    /\ MetBefore(Fs, ret[i], ret[j])

\* QueryVar is in a scope and left out, and a variable met later but found
\* in fewer factors is listed first
C9_Witness ==
    /\ Returned("min_fill_ordering")
    /\ Len(call.Factors) >= 1
    /\ Contains(call.Factors[1].scope, call.QueryVar)
    /\ Len(ret) = 2
    /\ Appearances(call.Factors, ret[1]) < Appearances(call.Factors, ret[2])
    /\ MetBefore(call.Factors, ret[2], ret[1])

(***************************************************************************)
(* The networks                                                            *)
(***************************************************************************)
Row(vals, number) == [vals |-> vals, number |-> number]

BN(name, Vars, Factors) == [name |-> name, Variables |-> Vars, Factors |-> Factors]

\* the autograder's example; the probabilities are written in tenths
FE == add_values(Factor("P(E)", <<"E">>), <<Row(<<"e">>, 1), Row(<<"-e">>, 9)>>)

FB == add_values(Factor("P(B)", <<"B">>), <<Row(<<"b">>, 1), Row(<<"-b">>, 9)>>)

FS == add_values(Factor("P(S|E,B)", <<"S", "E", "B">>),
        <<Row(<<"s", "e", "b">>, 9), Row(<<"s", "e", "-b">>, 2),
          Row(<<"s", "-e", "b">>, 8), Row(<<"s", "-e", "-b">>, 0),
          Row(<<"-s", "e", "b">>, 1), Row(<<"-s", "e", "-b">>, 8),
          Row(<<"-s", "-e", "b">>, 2), Row(<<"-s", "-e", "-b">>, 10)>>)

FG == add_values(Factor("P(G|S)", <<"G", "S">>),
        <<Row(<<"g", "s">>, 5), Row(<<"g", "-s">>, 0),
          Row(<<"-g", "s">>, 5), Row(<<"-g", "-s">>, 10)>>)

FW == add_values(Factor("P(W|S)", <<"W", "S">>),
        <<Row(<<"w", "s">>, 8), Row(<<"w", "-s">>, 2),
          Row(<<"-w", "s">>, 2), Row(<<"-w", "-s">>, 8)>>)

ExampleBN == BN("ExampleBN", <<"E", "B", "S", "G", "W">>, <<FE, FB, FS, FG, FW>>)

\* CausalModelMediator on a data set of ten rows, six of Italy: the Country
\* table in tenths, the Age table in twelfths, and the Fatality table as the
\* code fills it, 1 for every combination met in the data (here all but one)
factor_country ==
    add_values(Factor("A", <<"Country">>),
               <<Row(<<"Italy">>, 6), Row(<<"China">>, 4)>>)

factor_age ==
    add_values(Factor("A|C", <<"Age", "Country">>),
        <<Row(<<"0-9", "China">>, 6), Row(<<"70-79", "China">>, 3),
          Row(<<"80", "China">>, 3), Row(<<"0-9", "Italy">>, 2),
          Row(<<"70-79", "Italy">>, 4), Row(<<"80", "Italy">>, 6)>>)

factor_fatality ==
    add_values(Factor("F|A,C", <<"Fatality", "Age", "Country">>),
        <<Row(<<"NO", "0-9", "China">>, 1), Row(<<"NO", "0-9", "Italy">>, 1),
          Row(<<"NO", "70-79", "China">>, 1), Row(<<"NO", "70-79", "Italy">>, 1),
          Row(<<"NO", "80", "China">>, 1), Row(<<"NO", "80", "Italy">>, 1),
          Row(<<"YES", "0-9", "Italy">>, 1),
          Row(<<"YES", "70-79", "China">>, 1), Row(<<"YES", "70-79", "Italy">>, 1),
          Row(<<"YES", "80", "China">>, 1), Row(<<"YES", "80", "Italy">>, 1)>>)

Mediator ==
    BN("CausalModelMediator", <<"Country", "Age", "Fatality">>,
       <<factor_country, factor_age, factor_fatality>>)

\* a chain Country -> Age -> Fatality of conditional tables in tenths and
\* twelfths, with Variables and Factors listed against the causal order
ChainFatality ==
    add_values(Factor("F|A", <<"Fatality", "Age">>),
        <<Row(<<"YES", "0-9">>, 0), Row(<<"NO", "0-9">>, 10),
          Row(<<"YES", "70-79">>, 3), Row(<<"NO", "70-79">>, 7),
          Row(<<"YES", "80">>, 6), Row(<<"NO", "80">>, 4)>>)

ChainBN ==
    BN("Chain", <<"Fatality", "Age", "Country">>,
       <<ChainFatality, factor_age, factor_country>>)

Networks == {ExampleBN, Mediator, ChainBN}

\* Lamp -> Flag in tenths: the lamp is lit for certain, the flag is a coin
FLamp ==
    add_values(Factor("P(Lamp)", <<"Lamp">>),
               <<Row(<<"lit">>, 10), Row(<<"dark">>, 0)>>)

FFlag ==
    add_values(Factor("P(Flag|Lamp)", <<"Flag", "Lamp">>),
        <<Row(<<"", "lit">>, 5), Row(<<"on", "lit">>, 5),
          Row(<<"", "dark">>, 5), Row(<<"on", "dark">>, 5)>>)

SwitchBN == BN("Switch", <<"Lamp", "Flag">>, <<FLamp, FFlag>>)

\* the same factors with a Variable that no factor mentions
LooseBN == BN("Loose", <<"Lamp", "Flag", "Spare">>, <<FLamp, FFlag>>)

\* the same factors with Flag left out of the Variables
OpenBN == BN("Open", <<"Lamp">>, <<FLamp, FFlag>>)

(***************************************************************************)
(* VE called on a network                                                  *)
(***************************************************************************)
\* lists of distinct Variables of the network, at most MaxEvidence long
EvidenceLists(net) ==
    {E \in SeqsOf(ScopeSet(net.Variables), 0, MaxEvidence) :
        \A i, j \in 1..Len(E) : E[i] = E[j] => i = j}

\* the evidence slots after the caller's set_evidence calls: a value of the
\* domain, or unset, for each listed Variable
EvidenceSettings(E) ==
    {[v \in VariableObjects |->
        IF \E k \in 1..Len(E) : E[k] = v
        THEN x[CHOOSE k \in 1..Len(E) : E[k] = v] ELSE -1] :
       x \in {y \in [1..Len(E) -> -1..2] :
                \A k \in 1..Len(E) : y[k] < Len(InitDom[E[k]])}}

InitQuery(networks) ==
    /\ dom = InitDom
    /\ assignment_index = Unset
    /\ Net \in networks
    /\ QueryVar \in ScopeSet(Net.Variables)
    /\ EvidenceVars \in EvidenceLists(Net)
    /\ evidence_index \in EvidenceSettings(EvidenceVars)
    /\ pc = "call"
    /\ ret = None
    /\ factors = <<>>
    /\ ordered = <<>>
    /\ pending = <<>>
    /\ samp = NoSamp
    /\ reset_evidence = BoundMethod
    /\ threads = NoThreads

InitVE == InitQuery(Networks) /\ call = [op |-> "VE"]

\* probabilities = []; factors = Net.factors()
VE_Enter ==
    /\ pc = "call" /\ call.op = "VE"
    /\ factors' = Net.Factors
    /\ pending' = EvidenceVars
    /\ pc' = "evidence"
    /\ UNCHANGED <<varsObj, varsArg, ret, ordered, samp, threads>>

\* VE_Evidence on the BN's own list: Net.factors() without the copy
VE_Evidence_InPlace ==
    /\ pc = "evidence" /\ Len(pending) > 0
    /\ LET ev == Head(pending)
           value == get_evidence(ev)
       IN  IF RestrictAllError(factors, ev, value) # None
           THEN /\ pc' = "raise"
                /\ ret' = RestrictAllError(factors, ev, value)
                /\ UNCHANGED <<factors, pending, assignment_index, Net>>
           ELSE LET r == RestrictAll(factors, 1, ev, value, assignment_index)
                IN  /\ factors' = r.factors
                    /\ Net' = [Net EXCEPT !.Factors = r.factors]
                    /\ assignment_index' = r.asg
                    /\ pending' = Tail(pending)
                    /\ UNCHANGED <<pc, ret>>
    /\ UNCHANGED <<dom, evidence_index, reset_evidence, QueryVar, EvidenceVars, call, ordered, samp, threads>>

\* one pass of "for ev in EvidenceVars"
VE_Evidence ==
    /\ pc = "evidence" /\ Len(pending) > 0
    /\ LET ev == Head(pending)
           value == get_evidence(ev)
       IN  IF RestrictAllError(factors, ev, value) # None
           THEN /\ pc' = "raise"
                /\ ret' = RestrictAllError(factors, ev, value)
                /\ UNCHANGED <<factors, pending, assignment_index>>
           ELSE LET r == RestrictAll(factors, 1, ev, value, assignment_index)
                IN  /\ factors' = r.factors
                    /\ assignment_index' = r.asg
                    /\ pending' = Tail(pending)
                    /\ UNCHANGED <<pc, ret>>
    /\ UNCHANGED <<dom, evidence_index, reset_evidence, varsArg, ordered, samp, threads>>

\* ordered = min_fill_ordering(factors, QueryVar)
VE_Order ==
    /\ pc = "evidence" /\ Len(pending) = 0
    /\ ordered' = min_fill_ordering(factors, QueryVar)
    /\ pc' = "eliminate"
    /\ UNCHANGED <<varsObj, varsArg, ret, factors, pending, samp, threads>>

\* one pass of "for var in ordered: factors = VE_cagan31(factors, var)"
VE_Eliminate ==
    /\ pc = "eliminate" /\ Len(ordered) > 0
    /\ LET r == VE_cagan31(factors, Head(ordered), assignment_index)
       IN  /\ factors' = r.factors
           /\ assignment_index' = r.asg
    /\ ordered' = Tail(ordered)
    /\ UNCHANGED <<dom, evidence_index, reset_evidence, varsArg, pc, ret, pending, samp, threads>>

\* last_factor = multiply_factors(factors), the read-off loop and the return
VE_Finish ==
    /\ pc = "eliminate" /\ Len(ordered) = 0
    /\ IF multiply_factors_error(factors) # None
       THEN pc' = "raise" /\ ret' = multiply_factors_error(factors)
       ELSE LET last_factor == multiply_factors(factors)
            IN  IF ReadOffError(last_factor, QueryVar) # None
                THEN pc' = "raise" /\ ret' = ReadOffError(last_factor, QueryVar)
                ELSE pc' = "return" /\ ret' = VE_Return(last_factor, QueryVar)
    /\ UNCHANGED <<varsObj, varsArg, varsVE, samp, threads>>

NextVE ==
    \/ VE_Enter
    \/ VE_Evidence
    \/ VE_Order
    \/ VE_Eliminate
    \/ VE_Finish

SpecVE == InitVE /\ [][NextVE]_vars

(***************************************************************************)
(* Properties of VE                                                        *)
(***************************************************************************)
\* the query the caller is meant to pose: QueryVar is no evidence variable
\* and every evidence variable has its value set
ProperQuery ==
    /\ ~Contains(EvidenceVars, QueryVar)
    /\ \A k \in 1..Len(EvidenceVars) : evidence_index[EvidenceVars[k]] >= 0

\* the assignment a gives QueryVar the value q and agrees with the evidence
Consistent(a, q) ==
    /\ a[QueryVar] = q
    /\ \A k \in 1..Len(EvidenceVars) :
         a[EvidenceVars[k]] = get_evidence(EvidenceVars[k])

RECURSIVE SumJoint(_)
SumJoint(As) ==
    IF As = {} THEN 0
    ELSE LET a == CHOOSE a \in As : TRUE
         IN  ProductAt(Net.Factors, a) + SumJoint(As \ {a})

\* the full joint with the evidence fixed and QueryVar = q, every other
\* variable summed out
Joint(q) ==
    SumJoint({a \in Assignments(UnionScope(Net.Factors)) : Consistent(a, q)})

JointTotal == SumSeq([k \in 1..Len(dom[QueryVar]) |-> Joint(dom[QueryVar][k])])

\* C3: for evidence of non-zero probability VE returns, for each value q of
\* QueryVar, the joint of all factors with the evidence fixed and the other
\* variables summed out, normalized over QueryVar's domain.
C3_VEMatchesJoint ==
    (Finished("VE") /\ ProperQuery /\ JointTotal # 0) =>
      /\ pc = "return"
      /\ Len(ret) = Len(dom[QueryVar])
      /\ \A k \in 1..Len(ret) :
           RatEq(ret[k], Quotient(Joint(dom[QueryVar][k]), JointTotal))

\* a query on a three-valued variable with evidence on both sides of it
C3_Witness ==
    /\ Returned("VE")
    /\ Net = ChainBN
    /\ QueryVar = "Age"
    /\ EvidenceVars = <<"Country", "Fatality">>
    /\ ProperQuery
    /\ \A k \in 1..Len(ret) : ~IsZero(ret[k])

\* |q - t / 10000| < 1 / 10000
Within(q, t) == Abs(Reduce(q).num * 10000 - t * Reduce(q).den) < Reduce(q).den

EvidenceIs(E, values) ==
    /\ EvidenceVars = E
    /\ \A k \in 1..Len(E) : get_evidence(E[k]) = values[k]

\* C7: on the example network VE for G returns exactly [0, 1] with evidence
\* S=-s, W=w and with S=-s, W=-w; with W=w alone [0.0396/0.2594,
\* 0.2198/0.2594], about [0.1527, 0.8473]; with W=-w alone about
\* [0.0134, 0.9866]; each within 0.0001.
C7_ExampleQueries ==
    (Finished("VE") /\ Net = ExampleBN /\ QueryVar = "G") =>
      /\ (\/ EvidenceIs(<<"S", "W">>, <<"-s", "w">>)
          \/ EvidenceIs(<<"S", "W">>, <<"-s", "-w">>)) =>
           /\ pc = "return"
           /\ RatEq(ret[1], IntZero)
           /\ RatEq(ret[2], Quotient(1, 1))
      /\ EvidenceIs(<<"W">>, <<"w">>) =>
           /\ pc = "return"
           /\ RatEq(ret[1], Quotient(396, 2594))
           /\ RatEq(ret[2], Quotient(2198, 2594))
           /\ Within(ret[1], 1527)
           /\ Within(ret[2], 8473)
      /\ EvidenceIs(<<"W">>, <<"-w">>) =>
           /\ pc = "return"
           /\ Within(ret[1], 134)
           /\ Within(ret[2], 9866)

\* the query for G with evidence W=w has returned
C7_Witness ==
    /\ Returned("VE")
    /\ Net = ExampleBN
    /\ QueryVar = "G"
    /\ EvidenceIs(<<"W">>, <<"w">>)

\* the unnormalized entries VE reads off its last factor
Unnormalized == ReadOff(multiply_factors(factors), QueryVar)

\* C8: VE returns one entry per value of QueryVar's domain, entry i for the
\* i-th value, summing to 1, except that when every unnormalized entry is 0
\* all entries are 0 and nothing is raised.
C8_VEDistribution ==
    /\ (Finished("VE") /\ ProperQuery) => pc = "return"
    /\ Returned("VE") =>
         LET s == SumSeq(Unnormalized)
         IN  /\ Len(ret) = Len(dom[QueryVar])
             /\ (\A k \in 1..Len(ret) : Unnormalized[k] = 0) =>
                  \A k \in 1..Len(ret) : IsZero(ret[k])
             /\ (\E k \in 1..Len(ret) : Unnormalized[k] # 0) =>
                  /\ RatDefined(ret) /\ IsOne(RatSum(ret))
                  /\ \A k \in 1..Len(ret) :
                       RatEq(ret[k], Quotient(Unnormalized[k], s))

\* evidence of probability zero: G=g together with S=-s
C8_Witness ==
    /\ Returned("VE")
    /\ Net = ExampleBN
    /\ QueryVar = "W"
    /\ EvidenceIs(<<"G", "S">>, <<"g", "-s">>)
    /\ \A k \in 1..Len(ret) : IsZero(ret[k])

(***************************************************************************)
(* SampleBN called on a network                                            *)
(***************************************************************************)
SampleNetworks == {Mediator, ChainBN, SwitchBN}

\* curr_factor before its first assignment
Unbound == [name |-> "unbound", scope |-> <<>>, values |-> <<>>]

InitSample ==
    /\ InitQuery(SampleNetworks)
    /\ call = [op |-> "SampleBN"]

\* weights = [0] * len(QueryVar.domain()); total = 0
Sample_Enter ==
    /\ pc = "call" /\ call.op = "SampleBN"
    /\ samp' = [round |-> 0, i |-> None,
                weights |-> [k \in 1..Len(domain(QueryVar)) |-> 0],
                total |-> 0, curr_weight |-> 0, dct |-> <<>>,
                curr_factor |-> Unbound, todo |-> <<>>]
    /\ pc' = "round"
    /\ UNCHANGED <<varsObj, varsArg, ret, varsVE, threads>>

\* "for i in range(...)" starts a round: curr_weight = 1, dct = {} and the
\* loop over the evidence variables
Sample_Round ==
    /\ pc = "round" /\ samp.round < NumSamples
    /\ IF EvidenceLoopError(EvidenceVars, Net.Factors) # None
       THEN /\ pc' = "raise"
            /\ ret' = EvidenceLoopError(EvidenceVars, Net.Factors)
            /\ UNCHANGED samp
       ELSE LET r == EvidenceLoop(EvidenceVars, Net.Factors, <<>>, 1)
            IN  /\ samp' = [samp EXCEPT !.i = samp.round,
                                        !.round = @ + 1,
                                        !.curr_weight = r.curr_weight,
                                        !.dct = r.dct,
                                        !.todo = Net.Variables]
                /\ pc' = "sample"
                /\ UNCHANGED ret
    /\ UNCHANGED <<varsObj, varsArg, varsVE, threads>>

\* one pass of "for variable in Net.variables()" over an evidence variable
Sample_Skip ==
    /\ pc = "sample" /\ Len(samp.todo) > 0
    /\ Contains(EvidenceVars, Head(samp.todo))
    /\ samp' = [samp EXCEPT !.todo = Tail(@)]
    /\ UNCHANGED <<varsObj, varsArg, pc, ret, varsVE, threads>>

\* one pass of "for variable in Net.variables()" that samples the variable
Sample_Variable ==
    /\ pc = "sample" /\ Len(samp.todo) > 0
    /\ ~Contains(EvidenceVars, Head(samp.todo))
    /\ LET variable == Head(samp.todo)
           curr_factor == FindFactor(Net.Factors, variable, samp.curr_factor)
       IN  IF curr_factor = Unbound
           THEN pc' = "raise" /\ ret' = "UnboundLocalError" /\ UNCHANGED samp
           ELSE IF ProbsError(curr_factor, variable, samp.dct) # None
           THEN /\ pc' = "raise"
                /\ ret' = ProbsError(curr_factor, variable, samp.dct)
                /\ UNCHANGED samp
           ELSE LET probs == Probs(curr_factor, variable, samp.dct)
                IN  IF Len(probs) > 0 /\ SumSeq(probs) = 0
                    THEN /\ pc' = "raise"
                         /\ ret' = "ZeroDivisionError"
                         /\ UNCHANGED samp
                    ELSE \E u \in 0..(UDen - 1) :
                           LET sel == Select(variable, probs, u, samp.i)
                           IN  /\ samp' = [samp EXCEPT
                                             !.curr_factor = curr_factor,
                                             !.i = sel.i,
                                             !.dct = Extend(@, variable, sel.chosen_val),
                                             !.todo = Tail(@)]
                               /\ UNCHANGED <<pc, ret>>
    /\ UNCHANGED <<varsObj, varsArg, varsVE, threads>>

\* the end of a round: the bucket "weights[i] += curr_weight" and the total
Sample_Accumulate ==
    /\ pc = "sample" /\ Len(samp.todo) = 0
    /\ LET query == IF QueryVar \in DOMAIN samp.dct THEN samp.dct[QueryVar] ELSE None
           found == Truthy(query) /\ Contains(domain(QueryVar), query)
       IN  IF found /\ samp.i >= Len(samp.weights)
           THEN pc' = "raise" /\ ret' = "IndexError" /\ UNCHANGED samp
           ELSE /\ samp' = [samp EXCEPT
                              !.weights = IF found
                                          THEN PySet(@, samp.i, PyGet(@, samp.i)
                                                                  + samp.curr_weight)
                                          ELSE @,
                              !.total = @ + samp.curr_weight]
                /\ pc' = "round"
                /\ UNCHANGED ret
    /\ UNCHANGED <<varsObj, varsArg, varsVE, threads>>

\* after the last round: probabilities = [weight / total for each bucket]
Sample_Return ==
    /\ pc = "round" /\ samp.round = NumSamples
    /\ IF Len(samp.weights) > 0 /\ samp.total = 0
       THEN pc' = "raise" /\ ret' = "ZeroDivisionError"
       ELSE /\ pc' = "return"
            /\ ret' = [k \in 1..Len(samp.weights) |->
                         Quotient(samp.weights[k], samp.total)]
    /\ UNCHANGED <<varsObj, varsArg, varsVE, samp, threads>>

NextSample ==
    \/ Sample_Enter
    \/ Sample_Round
    \/ Sample_Skip
    \/ Sample_Variable
    \/ Sample_Accumulate
    \/ Sample_Return

SpecSample == InitSample /\ [][NextSample]_vars

(***************************************************************************)
(* Properties of SampleBN                                                  *)
(***************************************************************************)
\* C10: at the end of every sampling round of a proper query the round's
\* weight is added to the bucket whose index is the position, in QueryVar's
\* domain, of the value QueryVar received in that round, and to the running
\* total, wherever QueryVar stands in Net.variables() and whatever the domain
\* sizes of the other sampled variables are
C10_BucketOfQueryValue ==
    [][(pc = "sample" /\ Len(samp.todo) = 0 /\ ProperQuery) =>
         /\ pc' = "round"
         /\ samp'.weights =
              [samp.weights EXCEPT
                 ![value_index(QueryVar, samp.dct[QueryVar]) + 1] =
                    @ + samp.curr_weight]
         /\ samp'.total = samp.total + samp.curr_weight]_vars

\* C11: SampleBN returns one entry per value of QueryVar's domain and the
\* entries sum to 1 whenever the running total is not 0, for every domain of
\* QueryVar, a domain with the empty string as a value included
C11_SampleSumsToOne ==
    (Returned("SampleBN") /\ ProperQuery /\ samp.total # 0) =>
      /\ Len(ret) = Len(dom[QueryVar])
      /\ RatDefined(ret)
      /\ IsOne(RatSum(ret))

\* C12: when the running total is 0 after the last round SampleBN returns a
\* list of zeros of the length of QueryVar's domain and raises nothing
C12_ZeroTotalGivesZeros ==
    [][(pc = "round" /\ call.op = "SampleBN" /\ ProperQuery
          /\ samp.round = NumSamples /\ samp.total = 0) =>
         /\ pc' = "return"
         /\ Len(ret') = Len(dom[QueryVar])
         /\ \A k \in 1..Len(ret') : IsZero(ret'[k])]_vars

\* VE as a function of its arguments: the evidence loop, ...
RECURSIVE VE_RestrictEvidence(_, _, _)
VE_RestrictEvidence(fs, E, asg) ==
    IF Len(E) = 0 THEN [factors |-> fs, asg |-> asg]
    ELSE LET r == RestrictAll(fs, 1, E[1], get_evidence(E[1]), asg)
         IN  VE_RestrictEvidence(r.factors, Tail(E), r.asg)

\* ... the elimination loop ...
RECURSIVE VE_EliminateAll(_, _, _)
VE_EliminateAll(fs, order, asg) ==
    IF Len(order) = 0 THEN [factors |-> fs, asg |-> asg]
    ELSE LET r == VE_cagan31(fs, order[1], asg)
         IN  VE_EliminateAll(r.factors, Tail(order), r.asg)

\* ... and the value returned
VE(net, QVar, E) ==
    LET restricted == VE_RestrictEvidence(net.Factors, E, assignment_index)
        eliminated == VE_EliminateAll(restricted.factors,
                                      min_fill_ordering(restricted.factors, QVar),
                                      restricted.asg)
    IN  VE_Return(multiply_factors(eliminated.factors), QVar)

\* |p - q| <= 1/10 for two quotients with positive denominators
WithinTenth(p, q) ==
    Abs(p.num * q.den - q.num * p.den) * 10 <= p.den * q.den

\* a query without evidence whose variable has a prior table that puts all
\* its weight on the first value: likelihood weighting gives that value in
\* every round, whatever the draws and however many rounds there are
SureQuery ==
    /\ EvidenceVars = <<>>
    /\ \E k \in 1..Len(Net.Factors) :
         /\ get_scope(Net.Factors[k]) = <<QueryVar>>
         /\ Net.Factors[k].values[1] > 0
         /\ \A j \in 2..Len(Net.Factors[k].values) : Net.Factors[k].values[j] = 0

\* C13: the estimate SampleBN returns is within 0.1, at every domain value,
\* of VE's answer for the same network, query and evidence; stated for the
\* queries whose estimate does not depend on the draws or on the number of
\* rounds
C13_SampleNearVE ==
    (Returned("SampleBN") /\ SureQuery) =>
      \A k \in 1..Len(ret) :
        WithinTenth(ret[k], VE(Net, QueryVar, EvidenceVars)[k])

(***************************************************************************)
(* VE called on networks that BN.__init__ accepts although a Variable is   *)
(* in no factor, or a factor's Variable is not among the Variables         *)
(***************************************************************************)
LooseNetworks == {LooseBN, OpenBN}

InitLoose == InitQuery(LooseNetworks) /\ call = [op |-> "VE"]

SpecLoose == InitLoose /\ [][NextVE]_vars

\* some evidence Variable has no value set
EvidenceUnset ==
    \E k \in 1..Len(EvidenceVars) : get_evidence(EvidenceVars[k]) = None

\* C14: VE called with an evidence Variable whose value is unset fails with
\* an error and returns no distribution
C14_UnsetEvidenceFailsVE ==
    (Finished("VE") /\ EvidenceUnset) => pc = "raise"

\* VE has ended after its elimination loop, at the read-off
AtReadOff ==
    Finished("VE") /\ Len(pending) = 0 /\ Len(ordered) = 0 /\ Len(factors) > 0

\* C16: when the product of the factors left after elimination does not have
\* scope exactly [QueryVar], VE fails at the read-off and returns no
\* distribution
C16_ReadOffFails ==
    (AtReadOff /\ get_scope(multiply_factors(factors)) # <<QueryVar>>) =>
      pc = "raise"

C15_UnsetEvidenceFailsSample ==
    (Finished("SampleBN") /\ EvidenceUnset) => pc = "raise"

(***************************************************************************)
(* restrict_factor outside the scope                                       *)
(***************************************************************************)
\* restrict_factor was called with a Variable that is not in f's scope
RestrictOutside ==
    Finished("restrict_factor") /\ ~Contains(get_scope(call.f), call.var)

\* C18 as stated: restrict_factor(f, var, value) with var not in f's scope
\* completes and yields a factor whose scope is f's scope
C18_ScopeUnaffected ==
    RestrictOutside => (pc = "return" /\ get_scope(ret) = get_scope(call.f))

\* C18: restrict_factor(f, var, value) with var not in f's scope raises
\* ValueError at scope.remove(var): no factor is returned and no assignment
\* slot is written
C18_RestrictOutsideRaises ==
    [][(pc = "call" /\ call.op = "restrict_factor"
          /\ ~Contains(get_scope(call.f), call.var)) =>
         /\ pc' = "raise"
         /\ ret' = "ValueError"
         /\ assignment_index' = assignment_index]_vars

\* the call with a value of var's domain, on a factor of two Variables
C18_Witness ==
    /\ RestrictOutside
    /\ pc = "raise"
    /\ Len(get_scope(call.f)) = 2
    /\ InDomain(call.var, call.value)

(***************************************************************************)
(* All the operations together                                             *)
(***************************************************************************)
InitAll == InitAlgebra \/ InitVE \/ InitLoose \/ InitSample

NextAll == NextAlgebra \/ NextVE \/ NextSample

SpecAll == InitAll /\ [][NextAll]_vars

\* C19: no step of multiply_factors, restrict_factor, sum_out_variable, VE or
\* SampleBN, whether the call returns or fails, changes the caller's factor
\* list, an input Factor's scope or table, the BN's lists of Variables and
\* factors, the caller's evidence list, or a Variable's domain or evidence
\* value
C19_InputsUnchanged ==
    [][/\ call' = call
       /\ Net' = Net
       /\ EvidenceVars' = EvidenceVars
       /\ QueryVar' = QueryVar
       /\ dom' = dom
       /\ evidence_index' = evidence_index]_vars

\* VE has returned after restricting the factors of a network on two
\* evidence Variables: its working list is not the BN's list, and the
\* assignment slots, which are no input, have been written
C19_Witness ==
    /\ Returned("VE")
    /\ Net \in Networks
    /\ Len(EvidenceVars) = 2
    /\ ProperQuery
    /\ factors # Net.Factors
    /\ assignment_index # Unset

(***************************************************************************)
(* A Factor built and filled by its caller (bnetbase.py), with             *)
(* Variable.add_domain_values and Variable.set_assignment in between.      *)
(* ret is the Factor object; call.written is the set of table positions    *)
(* the caller has written, call.writes their number.                       *)
(***************************************************************************)
\* the values add_domain_values appends, in the order of their addition
NewValues == <<"new1", "new2", "new3">>

InitTable ==
    /\ dom = InitDom
    /\ evidence_index = Unset
    /\ assignment_index = Unset
    /\ Net = NoNet
    /\ QueryVar = None
    /\ EvidenceVars = <<>>
    /\ call \in {[op |-> "Factor", scope |-> AlgScopes[i], written |-> {}, writes |-> 0] :
                   i \in 1..Len(AlgScopes)}
    /\ pc = "call"
    /\ ret = None
    /\ factors = <<>>
    /\ ordered = <<>>
    /\ pending = <<>>
    /\ samp = NoSamp
    /\ reset_evidence = BoundMethod
    /\ threads = NoThreads

\* F = Factor(name, scope)
Table_Factor ==
    /\ pc = "call" /\ call.op = "Factor"
    /\ ret' = Factor("F", call.scope)
    /\ pc' = "built"
    /\ UNCHANGED <<varsObj, varsArg, varsVE, samp, threads>>

\* v.add_domain_values([val]) on a Variable of the scope
Table_AddDomainValues ==
    /\ pc = "built" /\ call.op = "Factor"
    /\ \E k \in 1..Len(call.scope) :
         LET v == call.scope[k]
             added == Len(dom[v]) - Len(InitDom[v])
         IN  /\ added < MaxDomainGrowth
             /\ dom' = [dom EXCEPT ![v] = Append(@, NewValues[added + 1])]
    /\ UNCHANGED <<evidence_index, assignment_index, reset_evidence, varsArg, pc, ret, varsVE, samp, threads>>

\* v.set_assignment(val) on a Variable of the scope
Table_SetAssignment ==
    /\ pc = "built" /\ call.op = "Factor"
    /\ \E k \in 1..Len(call.scope) : \E j \in 1..Len(dom[call.scope[k]]) :
         assignment_index' =
           [assignment_index EXCEPT
              ![call.scope[k]] = value_index(call.scope[k], dom[call.scope[k]][j])]
    /\ UNCHANGED <<dom, evidence_index, reset_evidence, varsArg, pc, ret, varsVE, samp, threads>>

\* self.values[index] = number: IndexError outside the table, else the write
TableWrite(index, number) ==
    IF index >= Len(ret.values) \/ index < -Len(ret.values)
    THEN /\ pc' = "raise"
         /\ ret' = "IndexError"
         /\ UNCHANGED call
    ELSE /\ ret' = [ret EXCEPT !.values = PySet(@, index, number)]
         /\ call' = [call EXCEPT
                       !.written = @ \cup {IF index >= 0 THEN index
                                           ELSE Len(ret.values) + index},
                       !.writes = @ + 1]
         /\ UNCHANGED pc

\* F.add_values([[val, ..., number]]) with a value of each Variable's domain
Table_AddValues ==
    /\ pc = "built" /\ call.op = "Factor" /\ call.writes < MaxWrites
    /\ \E a \in Assignments(ScopeSet(call.scope)) : \E number \in 1..MaxWrites :
         TableWrite(ValuesIndex(call.scope,
                                [k \in 1..Len(call.scope) |-> a[call.scope[k]]], 0),
                    number)
    /\ UNCHANGED <<varsObj, Net, QueryVar, EvidenceVars, varsVE, samp, threads>>

\* F.add_value_at_current_assignment(number)
Table_AddValueAtCurrentAssignment ==
    /\ pc = "built" /\ call.op = "Factor" /\ call.writes < MaxWrites
    /\ \E number \in 1..MaxWrites :
         TableWrite(AssignmentIndex(call.scope, assignment_index, 0), number)
    /\ UNCHANGED <<varsObj, Net, QueryVar, EvidenceVars, varsVE, samp, threads>>

NextTable ==
    \/ Table_Factor
    \/ Table_AddDomainValues
    \/ Table_SetAssignment
    \/ Table_AddValues
    \/ Table_AddValueAtCurrentAssignment

SpecTable == InitTable /\ [][NextTable]_vars

\* C20: in every state the table of a Factor, whether its caller built and
\* filled it or multiply_factors, restrict_factor or sum_out_variable
\* produced it, has as many entries as the product of the current domain
\* sizes of its scope, 1 for an empty scope, and the entries never written
\* are 0, also after add_domain_values on a Variable of the scope
C20_TableSize ==
    /\ (pc = "built" /\ call.op = "Factor") =>
         /\ Len(ret.values) = TableSize(get_scope(ret))
         /\ \A index \in 0..(Len(ret.values) - 1) :
              index \notin call.written => ret.values[index + 1] = 0
    /\ (\/ Returned("multiply_factors")
        \/ Returned("restrict_factor")
        \/ Returned("sum_out_variable")) =>
         Len(ret.values) = TableSize(get_scope(ret))


(***************************************************************************)
(* A caller driving the methods of the Variables and Factors of a built BN *)
(***************************************************************************)
\* a value that is in no Variable's domain
Outside == "outside"

\* the number a caller writes with add_values
Written == 7

\* calls the caller makes on the objects of one network
MaxCalls == 3

ObjectNetworks == {SwitchBN, OpenBN}

ObjectVariables == {"Lamp", "Flag"}

ObjectPcs == {"built", "return", "raise"}

\* the caller is between two calls and has calls left
BetweenCalls == pc \in ObjectPcs /\ call.n < MaxCalls

\* the values a caller passes for Variable v: its domain and one outsider
Passed(v) == {dom[v][k] : k \in 1..Len(dom[v])} \cup {Outside}

InitObjects ==
    /\ dom = InitDom
    /\ evidence_index = Unset
    /\ assignment_index = Unset
    /\ reset_evidence = BoundMethod
    /\ Net \in ObjectNetworks
    /\ QueryVar = None
    /\ EvidenceVars = <<>>
    /\ call = [op |-> "BN", n |-> 0]
    /\ pc = "built"
    /\ ret = None
    /\ factors = <<>>
    /\ ordered = <<>>
    /\ pending = <<>>
    /\ samp = NoSamp
    /\ threads = NoThreads

\* v.set_evidence(val): self.evidence_index = self.value_index(val)
set_evidence ==
    /\ BetweenCalls
    /\ \E v \in ObjectVariables : \E val \in Passed(v) :
         /\ call' = [op |-> "set_evidence", n |-> call.n + 1, v |-> v, val |-> val]
         /\ IF ~InDomain(v, val)
            THEN pc' = "raise" /\ ret' = "ValueError" /\ UNCHANGED evidence_index
            ELSE /\ evidence_index' = [evidence_index EXCEPT ![v] = value_index(v, val)]
                 /\ pc' = "return" /\ ret' = None
    /\ UNCHANGED <<dom, assignment_index, reset_evidence, Net, QueryVar,
                   EvidenceVars, varsVE, samp, threads>>

\* v.set_assignment(val): self.assignment_index = self.value_index(val)
set_assignment ==
    /\ BetweenCalls
    /\ \E v \in ObjectVariables : \E val \in Passed(v) :
         /\ call' = [op |-> "set_assignment", n |-> call.n + 1, v |-> v, val |-> val]
         /\ IF ~InDomain(v, val)
            THEN pc' = "raise" /\ ret' = "ValueError" /\ UNCHANGED assignment_index
            ELSE /\ assignment_index' = [assignment_index EXCEPT ![v] = value_index(v, val)]
                 /\ pc' = "return" /\ ret' = None
    /\ UNCHANGED <<dom, evidence_index, reset_evidence, Net, QueryVar,
                   EvidenceVars, varsVE, samp, threads>>

\* v.reset_assignment(): self.assignment_index = -1
reset_assignment ==
    /\ BetweenCalls
    /\ \E v \in ObjectVariables :
         /\ call' = [op |-> "reset_assignment", n |-> call.n + 1, v |-> v]
         /\ assignment_index' = [assignment_index EXCEPT ![v] = -1]
    /\ pc' = "return" /\ ret' = None
    /\ UNCHANGED <<dom, evidence_index, reset_evidence, Net, QueryVar,
                   EvidenceVars, varsVE, samp, threads>>

\* v.reset_evidence(): the body is "self.reset_evidence = -1", which binds
\* the instance attribute reset_evidence; once it is -1 the call
\* v.reset_evidence() is a call of an int and raises TypeError
Variable_reset_evidence ==
    /\ BetweenCalls
    /\ \E v \in ObjectVariables :
         /\ call' = [op |-> "reset_evidence", n |-> call.n + 1, v |-> v]
         /\ IF reset_evidence[v] = "method"
            THEN /\ reset_evidence' = [reset_evidence EXCEPT ![v] = IntMinusOne]
                 /\ pc' = "return" /\ ret' = None
            ELSE pc' = "raise" /\ ret' = "TypeError" /\ UNCHANGED reset_evidence
    /\ UNCHANGED <<dom, evidence_index, assignment_index, Net, QueryVar,
                   EvidenceVars, varsVE, samp, threads>>

\* a reset that clears only the slot of the first Variable of the list
ResetAll_FirstOnly(slots, Vars) ==
    [v \in DOMAIN slots |->
       IF Len(Vars) > 0 /\ v = Vars[1] THEN -1 ELSE slots[v]]

\* "for v in self.Variables: v.<slot> = -1"
ResetAll(slots, Vars) ==
    [v \in DOMAIN slots |-> IF Contains(Vars, v) THEN -1 ELSE slots[v]]

\* Net.reset_variables()
reset_variables ==
    /\ BetweenCalls
    /\ call' = [op |-> "reset_variables", n |-> call.n + 1]
    /\ evidence_index' = ResetAll(evidence_index, Net.Variables)
    /\ assignment_index' = ResetAll(assignment_index, Net.Variables)
    /\ pc' = "return" /\ ret' = None
    /\ UNCHANGED <<dom, reset_evidence, Net, QueryVar, EvidenceVars, varsVE,
                   samp, threads>>

\* the value lists a caller passes for a scope
RECURSIVE PassedLists(_)
PassedLists(scope) ==
    IF Len(scope) = 0 THEN {<<>>}
    ELSE {<<val>> \o rest : val \in Passed(scope[1]), rest \in PassedLists(Tail(scope))}

\* f.get_value(variable_values) on a factor of the network
Factor_get_value ==
    /\ BetweenCalls
    /\ \E k \in 1..Len(Net.Factors) : \E vals \in PassedLists(Net.Factors[k].scope) :
         /\ call' = [op |-> "get_value", n |-> call.n + 1, k |-> k, vals |-> vals]
         /\ IF get_value_error(Net.Factors[k], vals) # None
            THEN pc' = "raise" /\ ret' = get_value_error(Net.Factors[k], vals)
            ELSE pc' = "return" /\ ret' = get_value(Net.Factors[k], vals)
    /\ UNCHANGED <<varsObj, Net, QueryVar, EvidenceVars, varsVE, samp, threads>>

\* the rows add_values writes before a row raises: all of them when none does
RECURSIVE RowsBeforeError(_, _)
RowsBeforeError(scope, rows) ==
    IF Len(rows) = 0 \/ ValuesIndexError(scope, rows[1].vals) # None THEN <<>>
    ELSE <<rows[1]>> \o RowsBeforeError(scope, Tail(rows))

\* an add_values that never raises
add_values_error_None(f, rows) == None

\* the exception add_values raises: that of the first row that raises
add_values_error(f, rows) ==
    LET done == Len(RowsBeforeError(f.scope, rows))
    IN  IF done = Len(rows) THEN None
        ELSE ValuesIndexError(f.scope, rows[done + 1].vals)

\* f.add_values(rows) on a factor of the network: one row, or two rows for
\* a factor over one Variable
Factor_add_values ==
    /\ BetweenCalls
    /\ \E k \in 1..Len(Net.Factors) :
         LET f == Net.Factors[k]
             Rows == {[vals |-> vals, number |-> Written] : vals \in PassedLists(f.scope)}
         IN  \E rows \in {r \in SeqsOf(Rows, 1, 2) : Len(r) = 1 \/ Len(f.scope) = 1} :
               /\ call' = [op |-> "add_values", n |-> call.n + 1, k |-> k, rows |-> rows]
               /\ Net' = [Net EXCEPT !.Factors[k] =
                            add_values(f, RowsBeforeError(f.scope, rows))]
               /\ IF add_values_error(f, rows) # None
                  THEN pc' = "raise" /\ ret' = add_values_error(f, rows)
                  ELSE pc' = "return" /\ ret' = None
    /\ UNCHANGED <<varsObj, QueryVar, EvidenceVars, varsVE, samp, threads>>

NextObjects ==
    \/ set_evidence
    \/ set_assignment
    \/ reset_assignment
    \/ Variable_reset_evidence
    \/ reset_variables
    \/ Factor_get_value
    \/ Factor_add_values

SpecObjects == InitObjects /\ [][NextObjects]_vars

\* Variable.get_assignment
get_assignment(v) ==
    IF assignment_index[v] >= 0 THEN dom[v][assignment_index[v] + 1] ELSE None

\* the step just taken is the caller's call of op
Called(op) == call'.op = op /\ call'.n = call.n + 1

\* C21: a call of BN.reset_variables() leaves every Variable of the network
\* with get_evidence() = None and get_assignment() = None, whatever the slots
\* held before, and changes no domain and no factor table
C21_ResetVariables ==
    [][Called("reset_variables") =>
         /\ pc' = "return"
         /\ \A v \in ScopeSet(Net.Variables) :
              get_evidence(v)' = None /\ get_assignment(v)' = None
         /\ dom' = dom
         /\ Net' = Net]_vars

\* reset_variables() was the last of the caller's calls, after a table had
\* been written, and every Variable of the network is unset
C21_Witness ==
    /\ call.op = "reset_variables" /\ call.n = MaxCalls /\ pc = "return"
    /\ \E k \in 1..Len(Net.Factors) : Contains(Net.Factors[k].values, Written)
    /\ \A v \in ScopeSet(Net.Variables) :
         evidence_index[v] = -1 /\ assignment_index[v] = -1

\* a value list that holds a value outside its Variable's domain
HasOutside(scope, vals) == \E i \in 1..Len(scope) : ~InDomain(scope[i], vals[i])

\* the position of the first row with such a value, 0 when there is none
FirstOutside(scope, rows) ==
    IF \E i \in 1..Len(rows) : HasOutside(scope, rows[i].vals)
    THEN CHOOSE i \in 1..Len(rows) :
           /\ HasOutside(scope, rows[i].vals)
           /\ \A j \in 1..(i - 1) : ~HasOutside(scope, rows[j].vals)
    ELSE 0

\* every slot that is set indexes a value of the domain
SlotsInDomain ==
    \A v \in VariableObjects :
      /\ evidence_index[v] \in -1..(Len(dom[v]) - 1)
      /\ assignment_index[v] \in -1..(Len(dom[v]) - 1)

\* set_evidence / set_assignment with a value outside the domain raise
\* ValueError and leave both slots as they were
OutsideSetRaises ==
    \A op \in {"set_evidence", "set_assignment"} :
      (Called(op) /\ ~InDomain(call'.v, call'.val)) =>
         /\ pc' = "raise" /\ ret' = "ValueError"
         /\ evidence_index' = evidence_index
         /\ assignment_index' = assignment_index

\* get_value with a value outside a scope Variable's domain raises ValueError
\* and changes no table
OutsideGetRaises ==
    (Called("get_value") /\ HasOutside(Net.Factors[call'.k].scope, call'.vals)) =>
       pc' = "raise" /\ ret' = "ValueError" /\ Net' = Net

\* C26 (as stated): set_evidence, set_assignment, get_value and add_values
\* with an outside value fail and change neither the slots nor any table
C26_OutsideLeavesTable ==
    [][/\ OutsideSetRaises
       /\ OutsideGetRaises
       /\ (Called("add_values")
             /\ FirstOutside(Net.Factors[call'.k].scope, call'.rows) > 0) =>
            pc' = "raise" /\ ret' = "ValueError" /\ Net' = Net]_vars

\* C26 (amended): every set evidence and assignment is a member of the
\* domain; set_evidence, set_assignment and get_value with an outside value
\* raise ValueError and change nothing; add_values raises ValueError at the
\* first row that holds an outside value, with the rows before it written
\* and that row and the later ones not written
C26_OutsideRaises ==
    /\ []SlotsInDomain
    /\ [][/\ OutsideSetRaises
          /\ OutsideGetRaises
          /\ (Called("add_values")
                /\ FirstOutside(Net.Factors[call'.k].scope, call'.rows) > 0) =>
               LET k == call'.k
                   bad == FirstOutside(Net.Factors[k].scope, call'.rows)
               IN  /\ pc' = "raise" /\ ret' = "ValueError"
                   /\ Net' = [Net EXCEPT !.Factors[k] =
                                add_values(@, SubSeq(call'.rows, 1, bad - 1))]]_vars

\* add_values raised on its second row after its first row had changed the
\* table
C26_Witness ==
    /\ call.op = "add_values" /\ pc = "raise" /\ ret = "ValueError"
    /\ Len(call.rows) = 2
    /\ FirstOutside(Net.Factors[call.k].scope, call.rows) = 2
    /\ Contains(Net.Factors[call.k].values, Written)
    /\ call.n = 1

\* C28 (as stated): a call of Variable.reset_evidence() returns and leaves
\* the evidence unset (evidence_index = -1, so get_evidence() = None), on
\* the first call and on every later one
C28_ResetEvidenceUnsets ==
    [][Called("reset_evidence") =>
         pc' = "return" /\ evidence_index'[call'.v] = -1]_vars

(***************************************************************************)
(* The working list of VE through the evidence and elimination loops       *)
(***************************************************************************)
\* the elimination loop of VE is running or has ended
Eliminating == call.op = "VE" /\ pc = "eliminate"

\* the step is one pass of "for var in ordered"
EliminationStep ==
    Eliminating /\ pc' = "eliminate" /\ Len(ordered) > 0 /\ ordered' = Tail(ordered)

\* C22: in VE, once the evidence is applied no factor of the working list
\* mentions an evidence variable; a pass of the elimination loop for a
\* variable in some scope removes exactly that variable from the variables
\* mentioned across the list and does not lengthen the list; VE_cagan31 for
\* a variable in no scope returns the list unchanged; and when the loop has
\* ended only QueryVar can still be mentioned
C22_EliminationSteps ==
    /\ [](Eliminating =>
            /\ UnionScope(factors) \cap ScopeSet(EvidenceVars) = {}
            /\ \A v \in VariableObjects \ UnionScope(factors) :
                 VE_cagan31(factors, v, assignment_index).factors = factors
            /\ (Len(ordered) = 0 => UnionScope(factors) \subseteq {QueryVar}))
    /\ [][EliminationStep =>
            LET var == Head(ordered)
            IN  IF var \in UnionScope(factors)
                THEN /\ UnionScope(factors') = UnionScope(factors) \ {var}
                     /\ Len(factors') <= Len(factors)
                ELSE factors' = factors]_vars

\* the loop has ended on the example network with one evidence variable:
\* factors were merged and QueryVar alone is mentioned
C22_Witness ==
    /\ Eliminating /\ Len(ordered) = 0
    /\ Net = ExampleBN /\ Len(EvidenceVars) = 1 /\ ProperQuery
    /\ UnionScope(factors) = {QueryVar}
    /\ Len(factors) < Len(Net.Factors)

(***************************************************************************)
(* VE with another elimination order and another order of the factors      *)
(***************************************************************************)
\* the list in the order p
Permute(list, p) == [k \in 1..Len(list) |-> list[p[k]]]

\* VE on the factor list fs with the variables of min_fill_ordering
\* eliminated in the order p
VE_InOrder(fs, QVar, E, p) ==
    LET restricted == VE_RestrictEvidence(fs, E, assignment_index)
        order == min_fill_ordering(restricted.factors, QVar)
        eliminated == VE_EliminateAll(restricted.factors, Permute(order, p),
                                      restricted.asg)
    IN  VE_Return(multiply_factors(eliminated.factors), QVar)

\* the number of variables VE eliminates
NumEliminated(fs, QVar, E) ==
    Len(min_fill_ordering(VE_RestrictEvidence(fs, E, assignment_index).factors, QVar))

\* two lists of quotients with equal entries
SameDistribution(P1, P2) ==
    /\ Len(P1) = Len(P2)
    /\ \A k \in 1..Len(P1) : RatEq(P1[k], P2[k])

\* C23: the distribution VE returns is the one obtained by eliminating the
\* non-query, non-evidence variables in any other order, and by listing the
\* network's factors in any other order
C23_OrderFree ==
    (Returned("VE") /\ ProperQuery) =>
      /\ \A p \in ListOrders(NumEliminated(Net.Factors, QueryVar, EvidenceVars)) :
           SameDistribution(VE_InOrder(Net.Factors, QueryVar, EvidenceVars, p), ret)
      /\ \A p \in ListOrders(Len(Net.Factors)) :
           SameDistribution(
             VE([Net EXCEPT !.Factors = Permute(Net.Factors, p)], QueryVar, EvidenceVars),
             ret)

\* VE returned on the example network with four variables to eliminate, so
\* that twenty-four orders were compared, and the answer is not uniform
C23_Witness ==
    /\ Returned("VE") /\ ProperQuery
    /\ Net = ExampleBN /\ Len(EvidenceVars) = 0
    /\ NumEliminated(Net.Factors, QueryVar, EvidenceVars) = 4
    /\ ~RatEq(ret[1], ret[2])

(***************************************************************************)
(* Two threads running restrict_factor / sum_out_variable on factors that  *)
(* share Variables. A thread's call is the list of its accesses to shared  *)
(* state, in program order: the writes of assignment slots and the reads   *)
(* of the slots by the two table operations. Statements that touch only    *)
(* the thread's locals (F, summ, prod) are taken with the access before.   *)
(***************************************************************************)
\* Vars[0].set_assignment(val)
SetOp(v, val) == [op |-> "set", v |-> v, val |-> val]

\* prod = f.get_value_at_current_assignments(), added to summ, or to 0
\* after "summ = 0" and in restrict_factor
ReadOp(reset) == [op |-> "read", reset |-> reset]

\* F.add_value_at_current_assignment(...)
StoreOp == [op |-> "store"]

\* the accesses of recursive_restrict_factor(Vars)
RECURSIVE RestrictOps(_, _)
RECURSIVE RestrictLoopOps(_, _, _)
RestrictOps(Vars, var) ==
    IF Len(Vars) = 0 THEN <<ReadOp(TRUE), StoreOp>>
    ELSE IF Vars[1] # var THEN RestrictLoopOps(domain(Vars[1]), Vars, var)
    ELSE RestrictOps(Tail(Vars), var)

RestrictLoopOps(vals, Vars, var) ==
    IF Len(vals) = 0 THEN <<>>
    ELSE <<SetOp(Vars[1], vals[1])>> \o RestrictOps(Tail(Vars), var)
           \o RestrictLoopOps(Tail(vals), Vars, var)

\* restrict_factor that starts without var.set_assignment(value)
RestrictProgram_NoSet(f, var, value) == RestrictOps(get_scope(f), var)

\* the accesses of restrict_factor(f, var, value)
RestrictProgram(f, var, value) ==
    <<SetOp(var, value)>> \o RestrictOps(get_scope(f), var)

\* "for val in var.domain(): var.set_assignment(val); prod = ...; summ = ..."
RECURSIVE SumOps(_, _, _)
SumOps(vals, var, first) ==
    IF Len(vals) = 0 THEN <<>>
    ELSE <<SetOp(var, vals[1]), ReadOp(first)>> \o SumOps(Tail(vals), var, FALSE)

\* the accesses of recursive_eliminate_variable(Vars)
RECURSIVE EliminateOps(_, _)
RECURSIVE EliminateLoopOps(_, _, _)
EliminateOps(Vars, var) ==
    IF Len(Vars) = 0 THEN SumOps(domain(var), var, TRUE) \o <<StoreOp>>
    ELSE EliminateLoopOps(domain(Vars[1]), Vars, var)

EliminateLoopOps(vals, Vars, var) ==
    IF Len(vals) = 0 THEN <<>>
    ELSE <<SetOp(Vars[1], vals[1])>> \o EliminateOps(Tail(Vars), var)
           \o EliminateLoopOps(Tail(vals), Vars, var)

\* the accesses of sum_out_variable(f, var)
SumOutProgram(f, var) == EliminateOps(ListRemove(get_scope(f), var), var)

Program(c) ==
    IF c.op = "restrict_factor" THEN RestrictProgram(c.f, c.var, c.value)
    ELSE SumOutProgram(c.f, c.var)

\* the factors the threads work on: P(X) and P(X, Z)
TX == [name |-> "TX", scope |-> <<"X">>, values |-> <<3, 5>>]

TXZ == [name |-> "TXZ", scope |-> <<"X", "Z">>, values |-> <<1, 2, 3, 4>>]

ThreadCalls ==
    UNION {{[op |-> "restrict_factor", f |-> f, var |-> f.scope[i],
             value |-> InitDom[f.scope[i]][k]] :
              i \in 1..Len(f.scope), k \in 1..2} \cup
           {[op |-> "sum_out_variable", f |-> f, var |-> f.scope[i],
             value |-> None] : i \in 1..Len(f.scope)} : f \in {TX, TXZ}}

\* a thread at the start of its call: F = Factor(..., scope) is built
Thread(c) ==
    [call |-> c,
     todo |-> Program(c),
     F |-> Factor(IF c.op = "restrict_factor" THEN "Restrict" ELSE "Eliminate",
                  ListRemove(get_scope(c.f), c.var)),
     acc |-> 0]

InitThreads ==
    /\ dom = InitDom
    /\ evidence_index = Unset
    /\ assignment_index \in AlgAssignments
    /\ reset_evidence = BoundMethod
    /\ Net = NoNet
    /\ QueryVar = None
    /\ EvidenceVars = <<>>
    /\ call = [op |-> "threads"]
    /\ pc = "call"
    /\ ret = None
    /\ factors = <<>>
    /\ ordered = <<>>
    /\ pending = <<>>
    /\ samp = NoSamp
    /\ \E c1, c2 \in ThreadCalls :
       \E lock \in BOOLEAN :
         threads = [lock |-> lock, run |-> <<Thread(c1), Thread(c2)>>]

\* the thread is inside its call
InProgress(T) == Len(T.todo) > 0 /\ Len(T.todo) < Len(Program(T.call))

\* thread t performs its next access; with the lock a thread runs only
\* while the other one is outside its call
Thread_Step(t) ==
    /\ pc = "call" /\ call.op = "threads"
    /\ Len(threads.run[t].todo) > 0
    /\ threads.lock => ~InProgress(threads.run[3 - t])
    /\ LET T == threads.run[t]
           o == Head(T.todo)
       IN  /\ assignment_index' =
                IF o.op = "set"
                THEN [assignment_index EXCEPT ![o.v] = value_index(o.v, o.val)]
                ELSE assignment_index
           /\ threads' =
                [threads EXCEPT !.run[t] =
                   [T EXCEPT
                      !.todo = Tail(T.todo),
                      !.acc = IF o.op = "read"
                              THEN (IF o.reset THEN 0 ELSE T.acc)
                                     + get_value_at_current_assignments(
                                         T.call.f, assignment_index)
                              ELSE T.acc,
                      !.F = IF o.op = "store"
                            THEN add_value_at_current_assignment(
                                   T.F, assignment_index, T.acc)
                            ELSE T.F]]
    /\ UNCHANGED <<dom, evidence_index, reset_evidence, varsArg, pc, ret, varsVE, samp>>

\* both calls have returned: the caller holds the two factors
Threads_Join ==
    /\ pc = "call" /\ call.op = "threads"
    /\ \A t \in 1..2 : Len(threads.run[t].todo) = 0
    /\ pc' = "return"
    /\ ret' = <<threads.run[1].F, threads.run[2].F>>
    /\ UNCHANGED <<varsObj, varsArg, varsVE, samp, threads>>

NextThreads == (\E t \in 1..2 : Thread_Step(t)) \/ Threads_Join

SpecThreads == InitThreads /\ [][NextThreads]_vars

\* what the call returns when nothing else runs
SerialResult(c) ==
    IF c.op = "restrict_factor"
    THEN restrict_factor(c.f, c.var, c.value, Unset).F
    ELSE sum_out_variable(c.f, c.var, Unset).F

\* C24: when the two calls are serialized each returns its serial result,
\* whatever the other call and the slots at the start
C24_SerializedIsSerial ==
    (Returned("threads") /\ threads.lock) =>
       \A t \in 1..2 : ret[t] = SerialResult(threads.run[t].call)

\* without serialization two calls whose factors share a Variable have
\* both returned, and the table of one of them is not its serial result
C24_Witness ==
    /\ Returned("threads") /\ ~threads.lock
    /\ ScopeSet(threads.run[1].call.f.scope)
         \cap ScopeSet(threads.run[2].call.f.scope) # {}
    /\ \E t \in 1..2 : ret[t].values # SerialResult(threads.run[t].call).values

(***************************************************************************)
(* SampleBN: the factor a variable is sampled from                         *)
(***************************************************************************)
\* the next pass of "for variable in Net.variables()" samples a variable
AboutToSample ==
    /\ call.op = "SampleBN" /\ pc = "sample" /\ Len(samp.todo) > 0
    /\ ~Contains(EvidenceVars, Head(samp.todo))

Slots(scope) ==
    {[v \in VariableObjects |-> IF v \in ScopeSet(scope) THEN s[v] ELSE -1] :
       s \in {x \in [ScopeSet(scope) -> -1..2] :
                \A v \in ScopeSet(scope) : x[v] < Len(dom[v])}}

\* VE started with the assignment slots asg
VE_From(net, QVar, E, asg) ==
    LET restricted == VE_RestrictEvidence(net.Factors, E, asg)
        eliminated == VE_EliminateAll(restricted.factors,
                                      min_fill_ordering(restricted.factors, QVar),
                                      restricted.asg)
    IN  VE_Return(multiply_factors(eliminated.factors), QVar)

\* C27: what restrict_factor and sum_out_variable return is the same for
\* every content of the assignment slots at the start of the call, and a VE
\* call started from the slots the first call left behind, or from slots
\* all at the first or all at the last value, returns the identical list
C27_ScratchFree ==
    /\ Returned("restrict_factor") =>
         \A asg \in Slots(get_scope(call.f)) :
           restrict_factor(call.f, call.var, call.value, asg).F = ret
    /\ Returned("sum_out_variable") =>
         \A asg \in Slots(get_scope(call.f)) :
           sum_out_variable(call.f, call.var, asg).F = ret
    /\ (Returned("VE") /\ ProperQuery) =>
         \A asg \in {assignment_index,
                     [v \in VariableObjects |-> 0],
                     [v \in VariableObjects |-> Len(dom[v]) - 1]} :
           VE_From(Net, QueryVar, EvidenceVars, asg) = ret

\* VE returned on the example network and left assignment slots set
C27_Witness ==
    /\ Returned("VE") /\ ProperQuery
    /\ Net = ExampleBN /\ Len(EvidenceVars) = 1
    /\ \A v \in ScopeSet(Net.Variables) : assignment_index[v] >= 0
    /\ ~RatEq(ret[1], ret[2])

\* the pass of the variable loop just taken sampled a variable
Sampled == AboutToSample /\ pc' = "sample" /\ samp'.todo = Tail(samp.todo)

\* C29 (as stated): for every draw u in [0, 1), u = 0 included, and every
\* conditional distribution with non-zero sum, the value recorded for the
\* sampled variable is a value of its domain whose probability is positive
C29_PositiveChosen ==
    [][Sampled =>
         LET variable == Head(samp.todo)
             curr_factor == FindFactor(Net.Factors, variable, samp.curr_factor)
             probs == Probs(curr_factor, variable, samp.dct)
             chosen_val == samp'.dct[variable]
         IN  /\ InDomain(variable, chosen_val)
             /\ probs[value_index(variable, chosen_val) + 1] > 0]_vars

(***************************************************************************)
(* CausalModelMediator and CausalModelConfounder on a dataset. The dataset *)
(* df gives, for each (Fatality, Age, Country), the number of its rows.    *)
(* Table entries are the quotients the code computes, 0 written as 0 / 1.  *)
(***************************************************************************)
\* rows of one (Fatality, Age, Country) combination in a dataset
MaxRows == 2

\* "any value" in a row filter
AnyValue == "*"

DataKeys ==
    {<<f, a, c>> : f \in {InitDom["Fatality"][k] : k \in 1..2},
                   a \in {InitDom["Age"][k] : k \in 1..3},
                   c \in {InitDom["Country"][k] : k \in 1..2}}

\* the datasets in which every combination occurs
Datasets == [DataKeys -> 1..MaxRows]

RECURSIVE NumRowsIn(_, _)
NumRowsIn(df, keys) ==
    IF keys = {} THEN 0
    ELSE LET key == CHOOSE key \in keys : TRUE
         IN  df[key] + NumRowsIn(df, keys \ {key})

\* len(df[fatality_df & age_df & country_df]), AnyValue for a filter left out
NumRows(df, f, a, c) ==
    NumRowsIn(df, {key \in DOMAIN df : /\ f \in {AnyValue, key[1]}
                                       /\ a \in {AnyValue, key[2]}
                                       /\ c \in {AnyValue, key[3]}})

\* Factor(name, scope) with its zeros as quotients
ZeroFactor(name, scope) ==
    [Factor(name, scope) EXCEPT !.values = [k \in DOMAIN @ |-> IntZero]]

\* the domains of a scope, for itertools-style enumeration of its rows
Domains(scope) == [k \in 1..Len(scope) |-> domain(scope[k])]

\* "for country_name, population in country_populations.items()"
Mediator_factor_country(df) ==
    add_values(
      ZeroFactor("A", <<"Country">>),
      SelectSeq([k \in 1..Len(domain("Country")) |->
                   Row(<<domain("Country")[k]>>,
                       Quotient(NumRows(df, AnyValue, AnyValue, domain("Country")[k]),
                                NumRows(df, AnyValue, AnyValue, AnyValue)))],
                LAMBDA row : row.number.num > 0))

\* "for elem in age_country_counts.items()": the groups that have rows
Mediator_factor_age(df) ==
    add_values(
      ZeroFactor("A|C", <<"Age", "Country">>),
      SelectSeq([k \in 1..Len(Product(Domains(<<"Age", "Country">>))) |->
                   LET comb == Product(Domains(<<"Age", "Country">>))[k]
                       population == NumRows(df, AnyValue, comb[1], comb[2])
                       country_count == NumRows(df, AnyValue, AnyValue, comb[2])
                   IN  Row(comb, IF country_count > 0
                                 THEN Quotient(population, country_count)
                                 ELSE IntZero)],
                LAMBDA row : row.number.num > 0))

\* "for elem in fatality_age_country_counts.items()": count is looked up in
\* the series being iterated, under the key being iterated
Mediator_factor_fatality(df) ==
    add_values(
      ZeroFactor("F|A,C", <<"Fatality", "Age", "Country">>),
      SelectSeq([k \in 1..Len(Product(Domains(<<"Fatality", "Age", "Country">>))) |->
                   LET comb == Product(Domains(<<"Fatality", "Age", "Country">>))[k]
                       population == NumRows(df, comb[1], comb[2], comb[3])
                       count == NumRows(df, comb[1], comb[2], comb[3])
                   IN  Row(comb, IF count > 0 THEN Quotient(population, count)
                                 ELSE IntZero)],
                LAMBDA row : row.number.num > 0))

CausalModelMediator(df) ==
    BN("CausalModelMediator", <<"Country", "Age", "Fatality">>,
       <<Mediator_factor_country(df), Mediator_factor_age(df),
         Mediator_factor_fatality(df)>>)

\* factor_age = Factor("P(A)", [Age]): no add_values follows
Confounder_factor_age(df) == ZeroFactor("P(A)", <<"Age">>)

\* temp_prob = len(comb) / len(df[age_df])
Confounder_factor_country_age(df) ==
    add_values(
      ZeroFactor("P(C|A)", <<"Country", "Age">>),
      [k \in 1..Len(Product(Domains(<<"Country", "Age">>))) |->
         LET comb == Product(Domains(<<"Country", "Age">>))[k]
         IN  Row(comb, Quotient(NumRows(df, AnyValue, comb[2], comb[1]),
                                NumRows(df, AnyValue, comb[2], AnyValue)))])

\* temp_prob = len(comb) / len(df[country_df & age_df])
Confounder_factor_fatality_age_country(df) ==
    add_values(
      ZeroFactor("P(F|A,C)", <<"Fatality", "Age", "Country">>),
      [k \in 1..Len(Product(Domains(<<"Fatality", "Age", "Country">>))) |->
         LET comb == Product(Domains(<<"Fatality", "Age", "Country">>))[k]
         IN  Row(comb, Quotient(NumRows(df, comb[1], comb[2], comb[3]),
                                NumRows(df, AnyValue, comb[2], comb[3])))])

\* the divisions by len(df[age_df]) and len(df[country_df & age_df])
CausalModelConfounder_error(df) ==
    IF \E a \in {domain("Age")[k] : k \in 1..Len(domain("Age"))} :
         \/ NumRows(df, AnyValue, a, AnyValue) = 0
         \/ \E c \in {domain("Country")[k] : k \in 1..Len(domain("Country"))} :
              NumRows(df, AnyValue, a, c) = 0
    THEN "ZeroDivisionError" ELSE None

CausalModelConfounder(df) ==
    BN("CausalModelConfounder", <<"Age", "Country", "Fatality">>,
       <<Confounder_factor_age(df), Confounder_factor_country_age(df),
         Confounder_factor_fatality_age_country(df)>>)

InitCausal ==
    /\ dom = InitDom
    /\ evidence_index = Unset
    /\ assignment_index = Unset
    /\ reset_evidence = BoundMethod
    /\ Net = NoNet
    /\ QueryVar = None
    /\ EvidenceVars = <<>>
    /\ \E op \in {"CausalModelMediator", "CausalModelConfounder"} :
       \E df \in Datasets : call = [op |-> op, df |-> df]
    /\ pc = "call"
    /\ ret = None
    /\ factors = <<>>
    /\ ordered = <<>>
    /\ pending = <<>>
    /\ samp = NoSamp
    /\ threads = NoThreads

CallCausalModelMediator ==
    /\ pc = "call" /\ call.op = "CausalModelMediator"
    /\ pc' = "return"
    /\ ret' = CausalModelMediator(call.df)
    /\ UNCHANGED <<varsObj, varsArg, varsVE, samp, threads>>

CallCausalModelConfounder ==
    /\ pc = "call" /\ call.op = "CausalModelConfounder"
    /\ IF CausalModelConfounder_error(call.df) # None
       THEN pc' = "raise" /\ ret' = CausalModelConfounder_error(call.df)
       ELSE pc' = "return" /\ ret' = CausalModelConfounder(call.df)
    /\ UNCHANGED <<varsObj, varsArg, varsVE, samp, threads>>

NextCausal == CallCausalModelMediator \/ CallCausalModelConfounder

SpecCausal == InitCausal /\ [][NextCausal]_vars

\* f's entries over the values of its first scope Variable sum to 1 for
\* every assignment to the rest of its scope
SumsToOneOverFirst(f) ==
    LET rests == Product(Domains(Tail(get_scope(f))))
        first == get_scope(f)[1]
    IN  \A r \in 1..Len(rests) :
          IsOne(RatSum([k \in 1..Len(domain(first)) |->
                          get_value(f, <<domain(first)[k]>> \o rests[r])]))

\* C30 (as stated): for a dataset in which every combination occurs, every
\* factor of the networks CausalModelMediator and CausalModelConfounder
\* return is a conditional probability table of its first scope Variable:
\* its entries sum to 1 over that Variable for every assignment to the rest
C30_FactorsAreTables ==
    (pc = "return" /\ call.op \in {"CausalModelMediator", "CausalModelConfounder"}) =>
       \A k \in 1..Len(ret.Factors) : SumsToOneOverFirst(ret.Factors[k])

====
